---- MODULE Spec2Model ----
(***************************************************************************)
(* Vibehoot game engine (src/src/lib/game-engine.ts, class GameEngine,     *)
(* lines 111-325) over the Session Store (redis) and the Session Ledger    *)
(* (prisma.session).  Every Engine operation is an async function; each    *)
(* `await` is a suspension point at which other in-flight operations may   *)
(* run.  An in-flight operation is a call slot holding the operation's     *)
(* arguments, its local `state` object and its position.                   *)
(* Spec lets calls overlap (MaxOverlaps times per run), SeqSpec runs them   *)
(* one after the other, both on the session of one createSession call.     *)
(* LobbySpec starts with nothing stored and creates up to MaxSessions      *)
(* sessions that are joined, read, started and ended.                      *)
(***************************************************************************)
EXTENDS Integers, FiniteSets, Sequences, TLC

(* ------------------------------ bounds --------------------------------- *)
\* number of questions of the quiz in the catalog
NumQuestions == 1
\* no scoring submitAnswer is started for a player whose stored score reached this
MaxScore == 1501

\* how often in one run a call is started while another one is in flight
MaxOverlaps == 1
\* no createSession is started once the Ledger has issued this many session ids
MaxSessions == 2

\* the largest roster a leaderboard is made of
MaxPlayers == 11

\* the longest response time scored, in milliseconds
MaxResponseMs == 10050

\* the submit_answer messages of the player page that can be unacknowledged
MaxPendingAcks == 2

\* the connections to the server
Sockets == {"s1", "s2"}

\* call slots: Engine calls that can be in flight at the same time
Calls == 1..2
PlayerIds == {"p1", "p2"}
\* who joins under which nickname: p1 under two nicknames, p2 under one
Entrants == {<<"p1", "Alice">>, <<"p1", "Al">>, <<"p2", "Bob">>}
Nicknames == {e[2] : e \in Entrants}
OptionIndexes == {0, 1}
QuizIds == {"quiz-1", "quiz-0"}
HostIds == {"host-1"}

(* ----------------------------- join codes ------------------------------ *)
\* line 115: Math.floor(100000 + Math.random() * 900000).toString()
CodeBase == 100000
CodeSpan == 900000
\* Math.random() is r / RandomSteps for an r in 0..RandomSteps-1
RandomSteps == 1000000
\* the outcomes of Math.random() drawn: the least and the greatest
Randoms == {0, RandomSteps - 1}

\* generateJoinCode with a span of 1000000
generateJoinCode_WideSpan(r) == CodeBase + r

\* Math.floor(100000 + Math.random() * 900000); the fraction
\* CodeSpan / RandomSteps is reduced by CodeBase to keep the product small
generateJoinCode(r) ==
    CodeBase + ((r * (CodeSpan \div CodeBase)) \div (RandomSteps \div CodeBase))

Digit(d) ==
    CASE d = 0 -> "0" [] d = 1 -> "1" [] d = 2 -> "2" [] d = 3 -> "3" [] d = 4 -> "4"
      [] d = 5 -> "5" [] d = 6 -> "6" [] d = 7 -> "7" [] d = 8 -> "8" [] d = 9 -> "9"

\* Number.prototype.toString() of a non-negative integer: its decimal digits
RECURSIVE toString(_)
toString(n) == IF n < 10 THEN Digit(n) ELSE toString(n \div 10) \o Digit(n % 10)

\* the join code of the session of Spec and SeqSpec
JoinCode == "123456"
\* the join codes callers pass: JoinCode and those createSession returns with
\* the outcomes of Randoms
JoinCodes == {JoinCode} \cup {toString(generateJoinCode(r)) : r \in Randoms}
\* Date.now() at the first step, in steps of TickMs from there
TickMs == 10000
MaxTicks == 1
InitialNow == TickMs
\* currentQuestionIndex is not advanced past this by a new nextQuestion call
MaxIndex == NumQuestions + 1

(* --------------------------- quiz catalog ------------------------------ *)
\* getQuizQuestions: the ordered question list of quiz-1 (0-based index i is
\* element i+1); an unknown quiz has the empty list.
getQuizQuestions(quizId) ==
    IF quizId = "quiz-1"
    THEN [i \in 1..NumQuestions |->
            [id |-> i, text |-> "question " \o toString(i), options |-> <<"yes", "no">>,
             correctOptionIndex |-> (i - 1) % 2, timeLimit |-> 10, order |-> i - 1]]
    ELSE <<>>

\* questions[index] in JavaScript: undefined outside 0..length-1
HasQuestion(questions, index) == index >= 0 /\ index < Len(questions)
QuestionAt(questions, index) == questions[index + 1]

(* ---------------------------- game state ------------------------------- *)
\* null for the optional timestamps is the empty sequence, a value t is <<t>>
Null == <<>>

\* lines 128-138: the GameState written by createSession
newState(sessionId, quizId, hostId) ==
    [sessionId |-> sessionId, quizId |-> quizId, hostId |-> hostId,
     status |-> "WAITING", currentQuestionIndex |-> -1,
     players |-> <<>>, answers |-> <<>>,
     questionStartTime |-> Null, startTime |-> Null]

\* the GameState of the first session created for quiz-1
initialState == newState(1, "quiz-1", "host-1")

\* a call slot that holds no `state` object
NoState == [status |-> "NONE"]

NoResult == [kind |-> "none", error |-> "", value |-> <<>>]
Ok(v) == [kind |-> "ok", error |-> "", value |-> v]
Err(msg) == [kind |-> "error", error |-> msg, value |-> <<>>]

IdleCall ==
    [op |-> "none", pc |-> "idle", joinCode |-> "", playerId |-> "",
     nickname |-> "", optionIndex |-> 0, quizId |-> "", hostId |-> "",
     state |-> NoState, result |-> NoResult, peers |-> {}, found |-> Null,
     before |-> Null]

VARIABLES
    store,      \* redis: key session:<joinCode> -> GameState (absent keys not in DOMAIN)
    ledger,     \* prisma.session: joinCode -> the row [id, status] last created for it
    now,        \* Date.now()
    call,       \* call slot -> in-flight Engine operation; history: peers, the
                \* slots whose present call was in flight together with this one,
                \* and found, the nickname a joinSession call read for its
                \* player, the status a showResults call read, and before,
                \* what Store and Ledger held for the join code when the
                \* call in flight was made
    overlaps,   \* how many more calls may start while another call is in flight
    phase,      \* history: the roster persisted by the last nextQuestion, the
                \* players whose submitAnswer succeeded since, and per player the
                \* sum of the scores submitAnswer returned to the player since
                \* the joinSession that put the player into the roster
    socket,     \* connection -> its rooms, socket.data.joinCode and .playerId,
                \* whether it is connected, the call slot of the Engine call
                \* its command handler awaits (0: no command is handled);
                \* history: hosted and played, the rooms it joined by
                \* create_game and by join_game
    emitted,    \* the events the server has emitted since the last command
                \* was received or connection closed, in their order
    client      \* the React state of a player page (PlayerApp), its socketRef,
                \* the replies and events on their way to it; history: sent,
                \* the submit_answer messages it emitted since the last
                \* question_start

vars == <<store, ledger, now, call, overlaps, phase, socket, emitted, client>>

\* what the Store and the Ledger hold for a join code
Snapshot(jc, st, ld) ==
    [state |-> IF jc \in DOMAIN st THEN <<st[jc]>> ELSE Null,
     entry |-> IF jc \in DOMAIN ld THEN <<ld[jc]>> ELSE Null]

\* the call as it is made: nothing read yet
NewCall(op, jc, pid, nick, opt) ==
    [op |-> op, pc |-> "get", joinCode |-> jc, playerId |-> pid,
     nickname |-> nick, optionIndex |-> opt, quizId |-> "", hostId |-> "",
     state |-> NoState, result |-> NoResult, peers |-> {}, found |-> Null,
     before |-> Snapshot(jc, store, ledger)]

\* some call is between its first store read and its return
InFlight == \E d \in Calls : call[d].pc \notin {"idle", "done"}

\* some slot holds a call that is in flight or whose outcome is not consumed yet
Occupied == \E d \in Calls : call[d].pc # "idle"

\* a new call takes the first free slot, after the outcomes of the calls
\* before it were consumed or, MaxOverlaps times per run, while a call is in
\* flight
Free(c) ==
    /\ call[c].pc = "idle"
    /\ \A d \in Calls : d < c => call[d].pc # "idle"
    /\ Occupied => (InFlight /\ overlaps > 0)

\* the slots with a call in flight
Flying == {d \in Calls : call[d].pc \notin {"idle", "done"}}

\* slot c takes the new call r; the calls in flight become its peers
Start(c, r) ==
    [d \in Calls |->
        IF d = c THEN [r EXCEPT !.peers = Flying]
        ELSE IF d \in Flying THEN [call[d] EXCEPT !.peers = @ \cup {c}]
        ELSE call[d]]

\* the new call begins: an overlap uses up one of the allowed overlaps
Begin == overlaps' = IF Occupied THEN overlaps - 1 ELSE overlaps

\* redis.get(`session:${joinCode}`) found a value
Stored(jc) == jc \in DOMAIN store

\* the call has returned or thrown: drop the local state, keep the outcome
\* (a returned GameState object is recorded as "state", its content is the
\* state the call persisted)
Finish(cl, res) ==
    [cl EXCEPT !.pc = "done", !.state = NoState, !.result = res, !.before = Null]

\* a connection that has sent no command yet
NewSocket ==
    [rooms |-> {}, joinCode |-> Null, playerId |-> Null, connected |-> TRUE,
     slot |-> 0, hosted |-> {}, played |-> {}]

\* the player page as it is first rendered
NewClient ==
    [status |-> "JOIN", socketRef |-> FALSE, selectedAnswer |-> Null,
     questionIndex |-> 0, lastResult |-> Null, joining |-> FALSE,
     submitted |-> <<>>, sent |-> 0]

\* the connections are open, no command has been received, the player page
\* has just been opened
Connected ==
    socket = [s \in Sockets |-> NewSocket] /\ emitted = <<>> /\ client = NewClient

\* nothing has been joined, asked or answered yet
NoHistory == [roster |-> {}, answered |-> {}, credited |-> [p \in PlayerIds |-> 0]]

\* state after the first createSession(quizId, "host-1") returned JoinCode
Created(quizId) ==
    /\ store = (JoinCode :> newState(1, quizId, "host-1"))
    /\ ledger = (JoinCode :> [id |-> 1, status |-> "WAITING"])
    /\ now = InitialNow
    /\ call = [c \in Calls |-> IdleCall]
    /\ phase = NoHistory
    /\ Connected

Init == Created("quiz-1") /\ overlaps = MaxOverlaps

\* no call is started before the previous one returned; the quiz of the
\* session is quiz-1 or a quiz without questions
SeqInit == (\E quizId \in QuizIds : Created(quizId)) /\ overlaps = 0

\* state of a server that has not created a session yet
LobbyInit ==
    /\ store = <<>>
    /\ ledger = <<>>
    /\ now = InitialNow
    /\ call = [c \in Calls |-> IdleCall]
    /\ phase = NoHistory
    /\ Connected
    /\ overlaps = 0

\* redis.set(`session:${joinCode}`, JSON.stringify(state))
redisSet(jc, state) == [k \in DOMAIN store \cup {jc} |-> IF k = jc THEN state ELSE store[k]]

\* prisma.session.update({where: {joinCode}, data: {status}})
ledgerUpdate(jc, status) == [ledger EXCEPT ![jc].status = status]

\* the id of the next row of prisma.session
nextSessionId ==
    IF DOMAIN ledger = {} THEN 1
    ELSE 1 + CHOOSE i \in {ledger[k].id : k \in DOMAIN ledger} :
                 \A k \in DOMAIN ledger : ledger[k].id <= i

\* prisma.session.create({data: {joinCode, quizId, hostId, status: 'WAITING'}})
ledgerCreate(jc) ==
    [k \in DOMAIN ledger \cup {jc} |->
        IF k = jc THEN [id |-> nextSessionId, status |-> "WAITING"] ELSE ledger[k]]

\* whether prisma.session.create resolves for this join code: it does when the
\* Ledger holds no entry for the code; when it holds one, the Ledger either
\* records the new entry in its place or rejects it
ledgerAccepts(jc) == IF jc \in DOMAIN ledger THEN {TRUE, FALSE} ELSE {TRUE}

(* ----------------------------- createSession --------------------------- *)
\* lines 115-138: the join code is generated, the Ledger row created and the
\* initial state built from the row's id; the rejection of the Ledger is thrown
createSession_ledger(c, quizId, hostId, random) ==
    /\ Free(c)
    /\ nextSessionId <= MaxSessions
    /\ LET joinCode == toString(generateJoinCode(random))
           new == [NewCall("createSession", joinCode, "", "", 0)
                     EXCEPT !.quizId = quizId, !.hostId = hostId]
       IN
       \E accepted \in ledgerAccepts(joinCode) :
       IF accepted
       THEN /\ ledger' = ledgerCreate(joinCode)
            /\ call' = Start(c, [new EXCEPT !.pc = "set",
                                    !.state = newState(nextSessionId, quizId, hostId)])
       ELSE /\ ledger' = ledger
            /\ call' = Start(c, Finish(new, Err("Unique constraint failed")))
    /\ Begin
    /\ UNCHANGED <<store, now, phase, socket, emitted, client>>

\* lines 140-141
createSession_set(c) ==
    /\ call[c].op = "createSession" /\ call[c].pc = "set"
    /\ store' = redisSet(call[c].joinCode, call[c].state)
    /\ call' = [call EXCEPT ![c] = Finish(@, Ok(call[c].joinCode))]
    /\ UNCHANGED <<ledger, now, overlaps, phase, socket, emitted, client>>

(* ------------------------------ getSession ----------------------------- *)
\* lines 161-165: the stored GameState, or null
getSession_get(c, jc) ==
    /\ Free(c)
    /\ call' = Start(c, Finish(NewCall("getSession", jc, "", "", 0),
                               Ok(IF Stored(jc) THEN store[jc] ELSE Null)))
    /\ Begin
    /\ UNCHANGED <<store, ledger, now, phase, socket, emitted, client>>

(* ----------------------------- joinSession ----------------------------- *)
\* addPlayer that leaves the entry of a player already in the roster as it is
addPlayer_KeepsExisting(state, playerId, nickname) ==
    IF playerId \in DOMAIN state.players THEN state
    ELSE [state EXCEPT !.players =
            (playerId :> [id |-> playerId, nickname |-> nickname, score |-> 0]) @@ @]

\* the upsert of lines 151-155
addPlayer(state, playerId, nickname) ==
    [state EXCEPT !.players =
        (playerId :> [id |-> playerId, nickname |-> nickname, score |-> 0]) @@ @]

\* joinSession_get without the status check of line 149
joinSession_get_NoStatusCheck(c, jc, nickname, playerId) ==
    /\ Free(c)
    /\ LET new == NewCall("joinSession", jc, playerId, nickname, 0) IN
       call' = Start(c,
          IF ~Stored(jc) THEN Finish(new, Err("Session not found"))
          ELSE [new EXCEPT !.pc = "set", !.state = addPlayer(store[jc], playerId, nickname)])
    /\ Begin
    /\ UNCHANGED <<store, ledger, now, phase, socket, emitted, client>>

\* lines 145-155: read, validate, upsert the player in the local state
joinSession_get(c, jc, nickname, playerId) ==
    /\ Free(c)
    /\ LET new == NewCall("joinSession", jc, playerId, nickname, 0) IN
       call' = Start(c,
          IF ~Stored(jc) THEN Finish(new, Err("Session not found"))
          ELSE IF store[jc].status # "WAITING" THEN Finish(new, Err("Game already started"))
          ELSE [new EXCEPT !.pc = "set", !.state = addPlayer(store[jc], playerId, nickname),
                           !.found = IF playerId \in DOMAIN store[jc].players
                                     THEN <<store[jc].players[playerId].nickname>>
                                     ELSE Null])
    /\ Begin
    /\ UNCHANGED <<store, ledger, now, phase, socket, emitted, client>>

\* lines 157-158: persist the local state and return it
joinSession_set(c) ==
    /\ call[c].op = "joinSession" /\ call[c].pc = "set"
    /\ store' = redisSet(call[c].joinCode, call[c].state)
    /\ call' = [call EXCEPT ![c] = Finish(@, Ok("state"))]
    /\ phase' = [phase EXCEPT !.credited[call[c].playerId] = 0]
    /\ UNCHANGED <<ledger, now, overlaps, socket, emitted, client>>

(* ------------------------------ startGame ------------------------------ *)
\* lines 188-193: read; null if absent; else mutate the local state
startGame_get(c, jc) ==
    /\ Free(c)
    /\ LET new == NewCall("startGame", jc, "", "", 0) IN
       call' = Start(c,
          IF ~Stored(jc) THEN Finish(new, Ok(Null))
          ELSE [new EXCEPT !.pc = "set", !.state =
                  [store[jc] EXCEPT !.status = "ACTIVE", !.startTime = <<now>>,
                                    !.currentQuestionIndex = -1]])
    /\ Begin
    /\ UNCHANGED <<store, ledger, now, phase, socket, emitted, client>>

\* line 195
startGame_set(c) ==
    /\ call[c].op = "startGame" /\ call[c].pc = "set"
    /\ store' = redisSet(call[c].joinCode, call[c].state)
    /\ call' = [call EXCEPT ![c].pc = "ledger"]
    /\ UNCHANGED <<ledger, now, overlaps, phase, socket, emitted, client>>

\* lines 198-203
startGame_ledger(c) ==
    /\ call[c].op = "startGame" /\ call[c].pc = "ledger"
    /\ ledger' = ledgerUpdate(call[c].joinCode, "ACTIVE")
    /\ call' = [call EXCEPT ![c] = Finish(@, Ok("state"))]
    /\ UNCHANGED <<store, now, overlaps, phase, socket, emitted, client>>

(* ----------------------------- nextQuestion ---------------------------- *)
\* advance that never ends the game
advance_NeverEnds(state, t) ==
    [state EXCEPT !.currentQuestionIndex = @ + 1,
                  !.answers = <<>>,
                  !.questionStartTime = <<t>>,
                  !.status = "SHOWING_QUESTION"]

\* lines 212-220: the local state advanced to the next question
advance(state, t) ==
    LET index == state.currentQuestionIndex + 1 IN
    [state EXCEPT !.currentQuestionIndex = index,
                  !.answers = <<>>,
                  !.questionStartTime = <<t>>,
                  !.status = IF HasQuestion(getQuizQuestions(state.quizId), index)
                             THEN "SHOWING_QUESTION" ELSE "ENDED"]

\* lines 207-220: store read, catalog read (the catalog is immutable, the two
\* awaits are one step), local update; a new call is not started once the
\* stored index is MaxIndex
nextQuestion_get(c, jc) ==
    /\ Free(c)
    /\ Stored(jc) => store[jc].currentQuestionIndex < MaxIndex
    /\ LET new == NewCall("nextQuestion", jc, "", "", 0) IN
       call' = Start(c,
          IF ~Stored(jc) THEN Finish(new, Err("Session not found"))
          ELSE LET next == advance(store[jc], now) IN
               [new EXCEPT !.state = next,
                           !.pc = IF next.status = "ENDED" THEN "ledger" ELSE "set"])
    /\ Begin
    /\ UNCHANGED <<store, ledger, now, phase, socket, emitted, client>>

\* lines 221-224: only when no question is left
nextQuestion_ledger(c) ==
    /\ call[c].op = "nextQuestion" /\ call[c].pc = "ledger"
    /\ ledger' = ledgerUpdate(call[c].joinCode, "ENDED")
    /\ call' = [call EXCEPT ![c].pc = "set"]
    /\ UNCHANGED <<store, now, overlaps, phase, socket, emitted, client>>

\* nextQuestion_set that returns without the write of line 227
nextQuestion_set_NoWrite(c) ==
    /\ call[c].op = "nextQuestion" /\ call[c].pc = "set"
    /\ LET state == call[c].state
           questions == getQuizQuestions(state.quizId)
       IN call' = [call EXCEPT ![c] = Finish(@, Ok(
             [question |-> IF HasQuestion(questions, state.currentQuestionIndex)
                           THEN <<state.currentQuestionIndex>> ELSE Null,
              totalQuestions |-> Len(questions)]))]
    /\ phase' = [phase EXCEPT !.roster = DOMAIN call[c].state.players, !.answered = {}]
    /\ UNCHANGED <<store, ledger, now, overlaps, socket, emitted, client>>

\* lines 227-229
nextQuestion_set(c) ==
    /\ call[c].op = "nextQuestion" /\ call[c].pc = "set"
    /\ store' = redisSet(call[c].joinCode, call[c].state)
    /\ LET state == call[c].state
           questions == getQuizQuestions(state.quizId)
       IN call' = [call EXCEPT ![c] = Finish(@, Ok(
             [question |-> IF HasQuestion(questions, state.currentQuestionIndex)
                           THEN <<state.currentQuestionIndex>> ELSE Null,
              totalQuestions |-> Len(questions)]))]
    /\ phase' = [phase EXCEPT !.roster = DOMAIN call[c].state.players, !.answered = {}]
    /\ UNCHANGED <<ledger, now, overlaps, socket, emitted, client>>

(* ----------------------------- submitAnswer ---------------------------- *)
\* Points without Math.max(0, ...): the bonus goes on falling after the limit.
\* Lines 246-250: Math.round(x) is floor(x + 1/2), and with T = timeLimit*1000
\* and 0 <= responseTimeMs < T,  1000 + (1 - r/T)*500 + 1/2 is
\* 1000 + (1000*(T - r) + T) / (2*T)
Points_NoFloor(correct, responseTimeMs, timeLimit) ==
    IF ~correct THEN 0
    ELSE LET T == timeLimit * 1000 IN
         1000 + ((1000 * (T - responseTimeMs) + T) \div (2 * T))

\* lines 246-250, with the comment above
Points(correct, responseTimeMs, timeLimit) ==
    IF ~correct THEN 0
    ELSE LET T == timeLimit * 1000 IN
         IF responseTimeMs >= T THEN 1000
         ELSE 1000 + ((1000 * (T - responseTimeMs) + T) \div (2 * T))

\* line 242: Date.now() - (state.questionStartTime || Date.now())
responseTime(state, t) ==
    IF state.questionStartTime = Null \/ state.questionStartTime = <<0>>
    THEN 0 ELSE t - state.questionStartTime[1]

\* lines 243-250: {correct, score: points}
score(state, question, optionIndex, t) ==
    LET correct == optionIndex = question.correctOptionIndex IN
    [correct |-> correct,
     score |-> Points(correct, responseTime(state, t), question.timeLimit)]

\* record that sets the score to the points instead of adding them
record_SetsScore(state, playerId, optionIndex, responseTimeMs, points) ==
    LET answered == [state EXCEPT !.answers =
                       (playerId :> [playerId |-> playerId, optionIndex |-> optionIndex,
                                     responseTimeMs |-> responseTimeMs]) @@ @]
    IN IF playerId \in DOMAIN state.players
       THEN [answered EXCEPT !.players[playerId].score = points]
       ELSE answered

\* record that stores nothing for a player who is not in the roster
record_RosterOnly(state, playerId, optionIndex, responseTimeMs, points) ==
    IF playerId \in DOMAIN state.players
    THEN [state EXCEPT !.answers =
                          (playerId :> [playerId |-> playerId, optionIndex |-> optionIndex,
                                        responseTimeMs |-> responseTimeMs]) @@ @,
                       !.players[playerId].score = @ + points]
    ELSE state

\* lines 252-260: the answer entry, and the points if the player is in the roster
record(state, playerId, optionIndex, responseTimeMs, points) ==
    LET answered == [state EXCEPT !.answers =
                       (playerId :> [playerId |-> playerId, optionIndex |-> optionIndex,
                                     responseTimeMs |-> responseTimeMs]) @@ @]
    IN IF playerId \in DOMAIN state.players
       THEN [answered EXCEPT !.players[playerId].score = @ + points]
       ELSE answered

\* submitAnswer_reject without the 'Already answered' check of line 236
submitAnswer_reject_NoDuplicateCheck(jc, playerId) ==
    IF ~Stored(jc) THEN "Session not found"
    ELSE IF store[jc].status # "SHOWING_QUESTION" THEN "Not accepting answers"
    ELSE IF ~HasQuestion(getQuizQuestions(store[jc].quizId), store[jc].currentQuestionIndex)
         THEN "No current question"
    ELSE ""

\* submitAnswer_reject without the status check of line 235
submitAnswer_reject_NoStatusCheck(jc, playerId) ==
    IF ~Stored(jc) THEN "Session not found"
    ELSE IF playerId \in DOMAIN store[jc].answers THEN "Already answered"
    ELSE IF ~HasQuestion(getQuizQuestions(store[jc].quizId), store[jc].currentQuestionIndex)
         THEN "No current question"
    ELSE ""

\* lines 234-240: the message of the error thrown, "" if none
submitAnswer_reject(jc, playerId) ==
    IF ~Stored(jc) THEN "Session not found"
    ELSE IF store[jc].status # "SHOWING_QUESTION" THEN "Not accepting answers"
    ELSE IF playerId \in DOMAIN store[jc].answers THEN "Already answered"
    ELSE IF ~HasQuestion(getQuizQuestions(store[jc].quizId), store[jc].currentQuestionIndex)
         THEN "No current question"
    ELSE ""

\* lines 233-260: store read, the checks, catalog read (one step with the store
\* read), scoring and the local update; a call that would score is not started
\* for a player at the score cap
submitAnswer_get(c, jc, playerId, optionIndex) ==
    /\ Free(c)
    /\ (submitAnswer_reject(jc, playerId) = "" /\ playerId \in DOMAIN store[jc].players)
          => store[jc].players[playerId].score < MaxScore
    /\ LET new == NewCall("submitAnswer", jc, playerId, "", optionIndex)
           error == submitAnswer_reject(jc, playerId)
       IN
       call' = Start(c,
          IF error # "" THEN Finish(new, Err(error))
          ELSE LET state == store[jc]
                   question == QuestionAt(getQuizQuestions(state.quizId),
                                          state.currentQuestionIndex)
                   res == score(state, question, optionIndex, now)
               IN [new EXCEPT !.pc = "set",
                              !.state = record(state, playerId, optionIndex,
                                               responseTime(state, now), res.score),
                              !.result = [kind |-> "pending", error |-> "", value |-> res]])
    /\ Begin
    /\ UNCHANGED <<store, ledger, now, phase, socket, emitted, client>>

\* lines 262-264
submitAnswer_set(c) ==
    /\ call[c].op = "submitAnswer" /\ call[c].pc = "set"
    /\ store' = redisSet(call[c].joinCode, call[c].state)
    /\ call' = [call EXCEPT ![c] = Finish(@, Ok(call[c].result.value))]
    /\ phase' = [phase EXCEPT !.answered = @ \cup {call[c].playerId},
                              !.credited[call[c].playerId] =
                                  IF call[c].playerId \in DOMAIN call[c].state.players
                                  THEN @ + call[c].result.value.score ELSE @]
    /\ UNCHANGED <<ledger, now, overlaps, socket, emitted, client>>

(* ------------------------------ showResults ---------------------------- *)
\* showResults that goes on without a current question
showResults_get_NoQuestionCheck(c, jc) ==
    /\ Free(c)
    /\ LET new == NewCall("showResults", jc, "", "", 0) IN
       call' = Start(c,
          IF ~Stored(jc) THEN Finish(new, Err("Session not found"))
          ELSE [new EXCEPT !.pc = "set", !.found = <<store[jc].status>>,
                           !.state = [store[jc] EXCEPT !.status = "SHOWING_RESULTS"]])
    /\ Begin
    /\ UNCHANGED <<store, ledger, now, phase, socket, emitted, client>>

\* showResults that clears the answers it has counted
showResults_get_ClearsAnswers(c, jc) ==
    /\ Free(c)
    /\ LET new == NewCall("showResults", jc, "", "", 0) IN
       call' = Start(c,
          IF ~Stored(jc) THEN Finish(new, Err("Session not found"))
          ELSE IF ~HasQuestion(getQuizQuestions(store[jc].quizId), store[jc].currentQuestionIndex)
               THEN Finish(new, Err("No current question"))
          ELSE [new EXCEPT !.pc = "set", !.found = <<store[jc].status>>,
                           !.state = [store[jc] EXCEPT !.status = "SHOWING_RESULTS",
                                                       !.answers = <<>>]])
    /\ Begin
    /\ UNCHANGED <<store, ledger, now, phase, socket, emitted, client>>

\* lines 273-280: store read, catalog read (one step), local update
showResults_get(c, jc) ==
    /\ Free(c)
    /\ LET new == NewCall("showResults", jc, "", "", 0) IN
       call' = Start(c,
          IF ~Stored(jc) THEN Finish(new, Err("Session not found"))
          ELSE IF ~HasQuestion(getQuizQuestions(store[jc].quizId), store[jc].currentQuestionIndex)
               THEN Finish(new, Err("No current question"))
          ELSE [new EXCEPT !.pc = "set", !.found = <<store[jc].status>>,
                           !.state = [store[jc] EXCEPT !.status = "SHOWING_RESULTS"]])
    /\ Begin
    /\ UNCHANGED <<store, ledger, now, phase, socket, emitted, client>>

\* answerDistribution that counts an option beyond the last bucket in the last bucket
answerDistribution_Clamped(answers) ==
    [i \in 1..4 |-> Cardinality({p \in DOMAIN answers :
                        \/ answers[p].optionIndex = i - 1
                        \/ i = 4 /\ answers[p].optionIndex > 3})]

\* lines 284-294: the four buckets and the number of correct answers
answerDistribution(answers) ==
    [i \in 1..4 |-> Cardinality({p \in DOMAIN answers : answers[p].optionIndex = i - 1})]

correctCount(answers, question) ==
    Cardinality({p \in DOMAIN answers : answers[p].optionIndex = question.correctOptionIndex})

\* lines 281-301
showResults_set(c) ==
    /\ call[c].op = "showResults" /\ call[c].pc = "set"
    /\ store' = redisSet(call[c].joinCode, call[c].state)
    /\ LET state == call[c].state
           question == QuestionAt(getQuizQuestions(state.quizId), state.currentQuestionIndex)
       IN call' = [call EXCEPT ![c] = Finish(@, Ok(
             [correctOptionIndex |-> question.correctOptionIndex,
              answerDistribution |-> answerDistribution(state.answers),
              correctCount |-> correctCount(state.answers, question)]))]
    /\ UNCHANGED <<ledger, now, overlaps, phase, socket, emitted, client>>

(* ----------------------------- getLeaderboard -------------------------- *)
\* line 310: slice(0, 10)
LeaderboardSize == 10

\* Object.values(state.players): the players in the order in which their keys
\* were inserted; the players map of the model does not keep that order, keys
\* is an enumeration of its domain
values(players, keys) == [i \in 1..Len(keys) |-> players[keys[i]]]

\* the enumerations without repetition of the set S
Enumerations(S) ==
    {keys \in [1..Cardinality(S) -> S] : \A p \in S : \E i \in DOMAIN keys : keys[i] = p}

\* Array.prototype.sort with (a, b) => b.score - a.score is stable: a player
\* is put behind the players before it that have at least its score
RECURSIVE insertByScore(_, _)
insertByScore(player, sorted) ==
    IF sorted = <<>> THEN <<player>>
    ELSE IF Head(sorted).score >= player.score
         THEN <<Head(sorted)>> \o insertByScore(player, Tail(sorted))
         ELSE <<player>> \o sorted

RECURSIVE sortByScore(_)
sortByScore(players) ==
    IF players = <<>> THEN <<>>
    ELSE insertByScore(players[Len(players)],
                       sortByScore(SubSeq(players, 1, Len(players) - 1)))

\* slice(0, n) of an array
slice(array, n) == SubSeq(array, 1, IF Len(array) < n THEN Len(array) ELSE n)

\* getLeaderboard that does not sort
getLeaderboard_Unsorted(state, keys) ==
    slice(values(state.players, keys), LeaderboardSize)

\* lines 308-310
getLeaderboard(state, keys) ==
    slice(sortByScore(values(state.players, keys)), LeaderboardSize)

\* getLeaderboard_get that persists the state it read, without its answers
getLeaderboard_get_ClearsAnswers(c, jc, keys) ==
    /\ Free(c)
    /\ Stored(jc) => keys \in Enumerations(DOMAIN store[jc].players)
    /\ ~Stored(jc) => keys = <<>>
    /\ call' = Start(c, Finish(NewCall("getLeaderboard", jc, "", "", 0),
                               Ok(IF Stored(jc) THEN getLeaderboard(store[jc], keys)
                                  ELSE <<>>)))
    /\ Begin
    /\ store' = IF Stored(jc) THEN redisSet(jc, [store[jc] EXCEPT !.answers = <<>>])
                ELSE store
    /\ UNCHANGED <<ledger, now, phase, socket, emitted, client>>

\* lines 304-310: the store read and the list made of it
getLeaderboard_get(c, jc, keys) ==
    /\ Free(c)
    /\ Stored(jc) => keys \in Enumerations(DOMAIN store[jc].players)
    /\ ~Stored(jc) => keys = <<>>
    /\ call' = Start(c, Finish(NewCall("getLeaderboard", jc, "", "", 0),
                               Ok(IF Stored(jc) THEN getLeaderboard(store[jc], keys)
                                  ELSE <<>>)))
    /\ Begin
    /\ UNCHANGED <<store, ledger, now, phase, socket, emitted, client>>

(* -------------------------------- endGame ------------------------------ *)
\* lines 314-317
endGame_get(c, jc) ==
    /\ Free(c)
    /\ LET new == NewCall("endGame", jc, "", "", 0) IN
       call' = Start(c,
          IF ~Stored(jc) THEN Finish(new, Ok(Null))
          ELSE [new EXCEPT !.pc = "set", !.state = [store[jc] EXCEPT !.status = "ENDED"]])
    /\ Begin
    /\ UNCHANGED <<store, ledger, now, phase, socket, emitted, client>>

\* line 318
endGame_set(c) ==
    /\ call[c].op = "endGame" /\ call[c].pc = "set"
    /\ store' = redisSet(call[c].joinCode, call[c].state)
    /\ call' = [call EXCEPT ![c].pc = "ledger"]
    /\ UNCHANGED <<ledger, now, overlaps, phase, socket, emitted, client>>

\* lines 320-323
endGame_ledger(c) ==
    /\ call[c].op = "endGame" /\ call[c].pc = "ledger"
    /\ ledger' = ledgerUpdate(call[c].joinCode, "ENDED")
    /\ call' = [call EXCEPT ![c] = Finish(@, Ok(Null))]
    /\ UNCHANGED <<store, now, overlaps, phase, socket, emitted, client>>

(* ------------------------------ environment ---------------------------- *)
\* the caller has consumed the outcome; the slot is free for the next call
Return(c) ==
    /\ call[c].pc = "done"
    /\ call' = [d \in Calls |-> IF d = c THEN IdleCall
                                  ELSE [call[d] EXCEPT !.peers = @ \ {c}]]
    /\ UNCHANGED <<store, ledger, now, overlaps, phase, socket, emitted, client>>

\* an awaited redis.set or prisma call of the call in flight rejects (the
\* Store or the Ledger is unreachable): the Engine has no try / catch, the call
\* throws at this suspension point
ioFailure(c) ==
    /\ call[c].pc \in {"set", "ledger"}
    /\ call' = [call EXCEPT ![c] = Finish(@, Err("I/O failure"))]
    /\ UNCHANGED <<store, ledger, now, overlaps, phase, socket, emitted, client>>

\* the wall clock advances
Tick ==
    /\ now + TickMs <= InitialNow + MaxTicks * TickMs
    /\ now' = now + TickMs
    /\ UNCHANGED <<store, ledger, call, overlaps, phase, socket, emitted, client>>

(* ------------------------------- gateway ------------------------------ *)
\* callback(body): the acknowledgment of the command of connection s
ack(s, body) == [event |-> "ack", via |-> "callback", to |-> s, payload |-> body]
\* io.to(joinCode).emit(event, body)
broadcast(jc, event, body) == [event |-> event, via |-> "room", to |-> jc, payload |-> body]
\* socket.emit(event, body)
direct(s, event, body) == [event |-> event, via |-> "socket", to |-> s, payload |-> body]

\* a catch block that swallows the error
failure_Silent(s, c) == <<>>

\* catch (e): callback({ success: false, error: e.message })
failure(s, c) == <<ack(s, [success |-> FALSE, error |-> call[c].result.error])>>

\* a value of socket.data counts as set when it is not undefined and not ''
truthy(v) == v # Null /\ v # <<"">>

\* socket.on(command): the handler of a command of connection s begins; the
\* Engine call it awaits will run in slot c
receive(s, c) ==
    /\ socket[s].connected /\ socket[s].slot = 0
    /\ Free(c)
    /\ \A t \in Sockets : socket[t].slot # c
    /\ socket' = [socket EXCEPT ![s].slot = c]
    /\ emitted' = <<>>
    /\ UNCHANGED <<store, ledger, now, call, overlaps, phase, client>>

\* the handler of connection s awaits no call yet and makes its call in slot c
Awaits(s, c) == socket[s].slot = c /\ call[c].pc = "idle"

\* the Engine call the handler of connection s awaited has returned or thrown
Resumes(s, op) ==
    /\ socket[s].slot # 0
    /\ call[socket[s].slot].op = op /\ call[socket[s].slot].pc = "done"

\* the handler of connection s ends: the outcome of its call is consumed, sock
\* is what became of the connection and events what was emitted
reply(s, sock, events) ==
    /\ call' = [d \in Calls |->
                  IF d = socket[s].slot THEN IdleCall
                  ELSE [call[d] EXCEPT !.peers = @ \ {socket[s].slot}]]
    /\ socket' = [socket EXCEPT ![s] = [sock EXCEPT !.slot = 0]]
    /\ emitted' = events
    /\ UNCHANGED <<store, ledger, now, overlaps, phase, client>>

\* server.ts 27-30
create_game(s, c, quizId, hostId, random) ==
    Awaits(s, c) /\ createSession_ledger(c, quizId, hostId, random)

\* server.ts 31-36
create_game_reply(s) ==
    /\ Resumes(s, "createSession")
    /\ LET c == socket[s].slot
           jc == call[c].result.value
       IN IF call[c].result.kind = "ok"
          THEN reply(s, [socket[s] EXCEPT !.rooms = @ \cup {jc}, !.hosted = @ \cup {jc}],
                     <<ack(s, [success |-> TRUE, joinCode |-> jc])>>)
          ELSE reply(s, socket[s], failure(s, c))

\* server.ts 40-43
join_game(s, c, jc, nickname, playerId) ==
    Awaits(s, c) /\ joinSession_get(c, jc, nickname, playerId)

\* server.ts 44-55
join_game_reply(s) ==
    /\ Resumes(s, "joinSession")
    /\ LET c == socket[s].slot
           jc == call[c].joinCode
       IN IF call[c].result.kind = "ok"
          THEN reply(s, [socket[s] EXCEPT !.rooms = @ \cup {jc}, !.played = @ \cup {jc},
                                         !.joinCode = <<jc>>,
                                         !.playerId = <<call[c].playerId>>],
                     <<broadcast(jc, "player_joined",
                                 [playerId |-> call[c].playerId,
                                  nickname |-> call[c].nickname, score |-> 0]),
                       ack(s, [success |-> TRUE, state |-> call[c].result.value])>>)
          ELSE reply(s, socket[s], failure(s, c))

\* server.ts 59-62
start_game(s, c, jc) == Awaits(s, c) /\ startGame_get(c, jc)

\* server.ts 63-67: the value startGame returned is not looked at
start_game_reply(s) ==
    /\ Resumes(s, "startGame")
    /\ LET c == socket[s].slot IN
       IF call[c].result.kind = "ok"
       THEN reply(s, socket[s],
                  <<broadcast(call[c].joinCode, "game_started", Null),
                    ack(s, [success |-> TRUE])>>)
       ELSE reply(s, socket[s], failure(s, c))

\* server.ts 71-74
next_question(s, c, jc) == Awaits(s, c) /\ nextQuestion_get(c, jc)

\* question_start that carries the whole question
question_start_WholeQuestion(question, value) ==
    [questionIndex |-> value.question[1], totalQuestions |-> value.totalQuestions,
     text |-> question.text, options |-> question.options,
     timeLimit |-> question.timeLimit,
     correctOptionIndex |-> question.correctOptionIndex]

\* server.ts 78-84: the payload of question_start for the question returned;
\* state.currentQuestionIndex is the index at which the question was found
question_start(question, value) ==
    [questionIndex |-> value.question[1], totalQuestions |-> value.totalQuestions,
     text |-> question.text, options |-> question.options,
     timeLimit |-> question.timeLimit]

\* server.ts 76-95; the question object returned is the one the catalog holds
\* at the returned index for the quiz of the session; without a question the
\* handler awaits getLeaderboard, whose store read is part of this step (keys
\* as in getLeaderboard_get)
next_question_reply(s, keys) ==
    /\ Resumes(s, "nextQuestion")
    /\ LET c == socket[s].slot
           jc == call[c].joinCode
           value == call[c].result.value
       IN IF call[c].result.kind # "ok"
          THEN keys = <<>> /\ reply(s, socket[s], failure(s, c))
          ELSE IF value.question # Null
          THEN LET question == QuestionAt(getQuizQuestions(store[jc].quizId),
                                          value.question[1])
               IN /\ keys = <<>>
                  /\ reply(s, socket[s],
                        <<broadcast(jc, "question_start", question_start(question, value)),
                          ack(s, [success |-> TRUE, question |-> question,
                                  totalQuestions |-> value.totalQuestions,
                                  questionIndex |-> value.question[1]])>>)
          ELSE LET leaderboard == IF Stored(jc) THEN getLeaderboard(store[jc], keys)
                                  ELSE <<>>
               IN /\ Stored(jc) => keys \in Enumerations(DOMAIN store[jc].players)
                  /\ ~Stored(jc) => keys = <<>>
                  /\ reply(s, socket[s],
                        <<broadcast(jc, "game_ended", [leaderboard |-> leaderboard]),
                          ack(s, [success |-> TRUE, ended |-> TRUE,
                                  leaderboard |-> leaderboard])>>)

\* server.ts 99-102
submit_answer(s, c, jc, playerId, optionIndex) ==
    Awaits(s, c) /\ submitAnswer_get(c, jc, playerId, optionIndex)

\* the events of submit_answer with the acknowledgment first
submit_answer_events_AckFirst(s, jc, result) ==
    LET answerCount == IF Stored(jc) THEN Cardinality(DOMAIN store[jc].answers) ELSE 0
        totalPlayers == IF Stored(jc) THEN Cardinality(DOMAIN store[jc].players) ELSE 0
    IN <<ack(s, [success |-> TRUE, correct |-> result.correct, score |-> result.score]),
         broadcast(jc, "answer_count_update",
                   [answerCount |-> answerCount, totalPlayers |-> totalPlayers]),
         direct(s, "answer_result", result)>>

\* server.ts 105-116: the counts of the state getSession reads, the three
\* events in the order of the code
submit_answer_events(s, jc, result) ==
    LET answerCount == IF Stored(jc) THEN Cardinality(DOMAIN store[jc].answers) ELSE 0
        totalPlayers == IF Stored(jc) THEN Cardinality(DOMAIN store[jc].players) ELSE 0
    IN <<broadcast(jc, "answer_count_update",
                   [answerCount |-> answerCount, totalPlayers |-> totalPlayers]),
         ack(s, [success |-> TRUE, correct |-> result.correct, score |-> result.score]),
         direct(s, "answer_result", result)>>

\* server.ts 104-120; the store read of the awaited getSession is part of
\* this step
submit_answer_reply(s) ==
    /\ Resumes(s, "submitAnswer")
    /\ LET c == socket[s].slot IN
       IF call[c].result.kind = "ok"
       THEN reply(s, socket[s],
                  submit_answer_events(s, call[c].joinCode, call[c].result.value))
       ELSE reply(s, socket[s], failure(s, c))

\* server.ts 124-127
show_results(s, c, jc) == Awaits(s, c) /\ showResults_get(c, jc)

\* server.ts 129-139
show_results_reply(s) ==
    /\ Resumes(s, "showResults")
    /\ LET c == socket[s].slot
           results == call[c].result.value
       IN IF call[c].result.kind = "ok"
          THEN reply(s, socket[s],
                     <<broadcast(call[c].joinCode, "question_results", results),
                       ack(s, [success |-> TRUE, state |-> "state",
                               correctOptionIndex |-> results.correctOptionIndex,
                               answerDistribution |-> results.answerDistribution,
                               correctCount |-> results.correctCount])>>)
          ELSE reply(s, socket[s], failure(s, c))

\* server.ts 143-145
get_leaderboard(s, c, jc, keys) == Awaits(s, c) /\ getLeaderboard_get(c, jc, keys)

\* server.ts 146-151
get_leaderboard_reply(s) ==
    /\ Resumes(s, "getLeaderboard")
    /\ LET c == socket[s].slot
           leaderboard == call[c].result.value
       IN IF call[c].result.kind = "ok"
          THEN reply(s, socket[s],
                     <<broadcast(call[c].joinCode, "leaderboard_update",
                                 [leaderboard |-> leaderboard]),
                       ack(s, [success |-> TRUE, leaderboard |-> leaderboard])>>)
          ELSE reply(s, socket[s], failure(s, c))

\* server.ts 154-162: a connection that handles no command closes; it has
\* left its rooms when the handler runs
disconnect(s) ==
    /\ socket[s].connected /\ socket[s].slot = 0
    /\ socket' = [socket EXCEPT ![s].connected = FALSE, ![s].rooms = {}]
    /\ emitted' = IF truthy(socket[s].joinCode) /\ truthy(socket[s].playerId)
                  THEN <<broadcast(socket[s].joinCode[1], "player_disconnected",
                                   [playerId |-> socket[s].playerId[1]])>>
                  ELSE <<>>
    /\ UNCHANGED <<store, ledger, now, call, overlaps, phase, client>>

(* ----------------------------- player page ---------------------------- *)
\* the server and its connections are left alone by the page
ServerUnchanged == UNCHANGED <<store, ledger, now, call, overlaps, phase, socket, emitted>>

\* PlayerApp lines 35-44: the Join Game button, rendered while status is JOIN, with a
\* join code and a nickname typed in; the socket is made and join_game is
\* emitted once it connects; the button is not clicked again while the
\* reply is awaited
joinGame ==
    /\ client.status = "JOIN" /\ ~client.joining
    /\ client' = [client EXCEPT !.socketRef = TRUE, !.joining = TRUE]
    /\ ServerUnchanged

\* PlayerApp lines 44-50: the reply to join_game
joinGame_callback(success) ==
    /\ client.joining
    /\ client' = [client EXCEPT !.joining = FALSE,
                                !.status = IF success THEN "WAITING" ELSE @]
    /\ ServerUnchanged

\* PlayerApp lines 57-68: a question_start event arrives
on_question_start(questionIndex) ==
    /\ client.socketRef
    /\ client' = [client EXCEPT !.questionIndex = questionIndex,
                                !.selectedAnswer = Null, !.lastResult = Null,
                                !.status = "QUESTION", !.sent = 0]
    /\ ServerUnchanged

\* PlayerApp lines 70-80: a question_results event arrives; the handler was made by
\* joinGame and sees the selectedAnswer of that render, null
on_question_results ==
    /\ client.socketRef
    /\ client' = [client EXCEPT !.status = "RESULT"]
    /\ ServerUnchanged

\* PlayerApp lines 82-90
on_leaderboard_update ==
    /\ client.socketRef
    /\ client' = [client EXCEPT !.status = "LEADERBOARD"]
    /\ ServerUnchanged

\* PlayerApp lines 92-100
on_game_ended ==
    /\ client.socketRef
    /\ client' = [client EXCEPT !.status = "ENDED"]
    /\ ServerUnchanged

\* submitAnswer that emits whatever was selected before
submitAnswer_NoSelectionCheck(optionIndex) ==
    /\ client.status = "QUESTION"
    /\ client.socketRef /\ Len(client.submitted) < MaxPendingAcks
    /\ client' = [client EXCEPT !.selectedAnswer = <<optionIndex>>,
                                !.submitted = Append(@, optionIndex),
                                !.sent = @ + 1]
    /\ ServerUnchanged

\* PlayerApp lines 107-113, 158-171: an answer button is clicked; the buttons are rendered while
\* status is QUESTION, each render binds them to the submitAnswer of that
\* render, and the state set by a click is rendered before the next click
submitAnswer(optionIndex) ==
    /\ client.status = "QUESTION"
    /\ IF client.socketRef /\ client.selectedAnswer = Null
       THEN /\ Len(client.submitted) < MaxPendingAcks
            /\ client' = [client EXCEPT !.selectedAnswer = <<optionIndex>>,
                                        !.submitted = Append(@, optionIndex),
                                        !.sent = @ + 1]
       ELSE UNCHANGED client
    /\ ServerUnchanged

\* PlayerApp lines 114-120: the reply to the oldest unacknowledged submit_answer
submitAnswer_callback(res) ==
    /\ client.submitted # <<>>
    /\ client' = [client EXCEPT
                     !.submitted = Tail(@),
                     !.lastResult = IF res.success
                                    THEN <<[correct |-> res.correct, score |-> res.score]>>
                                    ELSE @,
                     !.status = IF res.success THEN "ANSWERED" ELSE @]
    /\ ServerUnchanged

\* one step of some Engine call
EngineStep ==
    \/ \E c \in Calls, jc \in JoinCodes : getSession_get(c, jc)
    \/ \E c \in Calls, jc \in JoinCodes, e \in Entrants :
          joinSession_get(c, jc, e[2], e[1])
    \/ \E c \in Calls : joinSession_set(c)
    \/ \E c \in Calls, jc \in JoinCodes : startGame_get(c, jc)
    \/ \E c \in Calls : startGame_set(c)
    \/ \E c \in Calls : startGame_ledger(c)
    \/ \E c \in Calls, jc \in JoinCodes : nextQuestion_get(c, jc)
    \/ \E c \in Calls : nextQuestion_ledger(c)
    \/ \E c \in Calls : nextQuestion_set(c)
    \/ \E c \in Calls, jc \in JoinCodes, p \in PlayerIds, o \in OptionIndexes :
          submitAnswer_get(c, jc, p, o)
    \/ \E c \in Calls : submitAnswer_set(c)
    \/ \E c \in Calls, jc \in JoinCodes : showResults_get(c, jc)
    \/ \E c \in Calls : showResults_set(c)
    \/ \E c \in Calls, jc \in JoinCodes : endGame_get(c, jc)
    \/ \E c \in Calls : endGame_set(c)
    \/ \E c \in Calls : endGame_ledger(c)
    \/ \E c \in Calls : Return(c)

\* calls of different connections interleave at their suspension points
Next == EngineStep

Spec == Init /\ [][Next]_vars

\* every call returns before the next one is started
SeqSpec == SeqInit /\ [][Next]_vars

\* sequential calls with the clock running
TimedNext == EngineStep \/ Tick

TimedSpec == SeqInit /\ [][TimedNext]_vars

\* sequential calls whose writes to the Store and the Ledger can fail
FaultNext == EngineStep \/ \E c \in Calls : ioFailure(c)

FaultSpec == SeqInit /\ [][FaultNext]_vars

\* the connection of the host sends the commands of the host screen, the
\* connection of a player those of the player screen
Hosts == {"s1"}
Guests == {"s2"}

\* the join codes the commands carry: that of the session and one that is
\* unknown and is not generated either
GatewayCodes == {JoinCode, toString(generateJoinCode(0))}

\* who joins through the gateway, each under one nickname
GatewayEntrants == {<<"p1", "Alice">>, <<"p2", "Bob">>}

\* the orders in which Object.values can enumerate a roster
Orders == UNION {Enumerations(S) : S \in SUBSET PlayerIds}

\* a step of the handler of a command that was received: its Engine call is
\* made, proceeds, or has returned and the handler emits and ends
HandlerStep ==
    \/ \E s \in Hosts, c \in Calls, h \in HostIds :
          create_game(s, c, "quiz-1", h, RandomSteps - 1)
    \/ \E c \in Calls : createSession_set(c)
    \/ \E s \in Sockets : create_game_reply(s)
    \/ \E s \in Guests, c \in Calls, jc \in GatewayCodes, e \in GatewayEntrants :
          join_game(s, c, jc, e[2], e[1])
    \/ \E c \in Calls : joinSession_set(c)
    \/ \E s \in Sockets : join_game_reply(s)
    \/ \E s \in Hosts, c \in Calls, jc \in GatewayCodes : start_game(s, c, jc)
    \/ \E c \in Calls : startGame_set(c)
    \/ \E c \in Calls : startGame_ledger(c)
    \/ \E s \in Sockets : start_game_reply(s)
    \/ \E s \in Hosts, c \in Calls, jc \in GatewayCodes : next_question(s, c, jc)
    \/ \E c \in Calls : nextQuestion_ledger(c)
    \/ \E c \in Calls : nextQuestion_set(c)
    \/ \E s \in Sockets, keys \in Orders : next_question_reply(s, keys)
    \/ \E s \in Guests, c \in Calls, jc \in GatewayCodes, p \in PlayerIds,
          o \in OptionIndexes : submit_answer(s, c, jc, p, o)
    \/ \E c \in Calls : submitAnswer_set(c)
    \/ \E s \in Sockets : submit_answer_reply(s)
    \/ \E s \in Hosts, c \in Calls, jc \in GatewayCodes : show_results(s, c, jc)
    \/ \E c \in Calls : showResults_set(c)
    \/ \E s \in Sockets : show_results_reply(s)
    \/ \E s \in Hosts, c \in Calls, jc \in GatewayCodes, keys \in Orders :
          get_leaderboard(s, c, jc, keys)
    \/ \E s \in Sockets : get_leaderboard_reply(s)

\* the first question was put at InitialNow to a roster of one player, who
\* answers it after 0 to MaxResponseMs milliseconds
ScoreInit ==
    /\ store = (JoinCode :>
          [initialState EXCEPT
              !.status = "SHOWING_QUESTION", !.currentQuestionIndex = 0,
              !.players = ("p1" :> [id |-> "p1", nickname |-> "Alice", score |-> 0]),
              !.questionStartTime = <<InitialNow>>, !.startTime = <<InitialNow>>])
    /\ ledger = (JoinCode :> [id |-> 1, status |-> "ACTIVE"])
    /\ now \in InitialNow..(InitialNow + MaxResponseMs)
    /\ call = [c \in Calls |-> IdleCall]
    /\ phase = [NoHistory EXCEPT !.roster = {"p1"}]
    /\ Connected
    /\ overlaps = 0

\* the player answers, one call after the other
ScoreNext ==
    \/ \E c \in Calls, o \in OptionIndexes : submitAnswer_get(c, JoinCode, "p1", o)
    \/ \E c \in Calls : submitAnswer_set(c)
    \/ \E c \in Calls : Return(c)

ScoreSpec == ScoreInit /\ [][ScoreNext]_vars

\* the rosters of the session when the last other command has been issued
EndRosters ==
    {<<>>,
     addPlayer(initialState, "p1", "Alice").players,
     addPlayer(addPlayer(initialState, "p1", "Alice"), "p2", "Bob").players}

\* lines 191-193: the local state of startGame
started(state, t) ==
    [state EXCEPT !.status = "ACTIVE", !.startTime = <<t>>,
                  !.currentQuestionIndex = -1]

\* k times nextQuestion
RECURSIVE asked(_, _, _)
asked(state, k, t) == IF k = 0 THEN state ELSE asked(advance(state, t), k - 1, t)

\* the GameStates the commands create_game, join_game, start_game,
\* next_question and show_results leave behind: a session joined by a roster,
\* then started, then advanced by up to NumQuestions + 1 questions, the results
\* of the question put last shown or not
EndStates ==
    LET joined == {[newState(1, q, "host-1") EXCEPT !.players = r] :
                      q \in QuizIds, r \in EndRosters}
        begun == {started(s, InitialNow) : s \in joined}
        put == {asked(s, k, InitialNow) : s \in begun, k \in 1..(NumQuestions + 1)}
        shown == {[s EXCEPT !.status = "SHOWING_RESULTS"] :
                     s \in {u \in put : u.status = "SHOWING_QUESTION"}}
    IN joined \cup begun \cup put \cup shown

\* the other commands have all been issued: the session is in one of the
\* states they leave behind, and the last of them, a start_game of connection
\* s1, has returned or has read the store and not written yet
EndInit ==
    /\ \E state \in EndStates : store = (JoinCode :> state)
    /\ ledger = (JoinCode :>
          [id |-> 1,
           status |-> IF store[JoinCode].status \in {"WAITING", "ENDED"}
                      THEN store[JoinCode].status ELSE "ACTIVE"])
    /\ now = InitialNow
    /\ phase = [NoHistory EXCEPT !.roster =
                  IF store[JoinCode].currentQuestionIndex >= 0
                  THEN DOMAIN store[JoinCode].players ELSE {}]
    /\ emitted = <<>>
    /\ client = NewClient
    /\ overlaps = MaxOverlaps
    /\ \/ /\ call = [c \in Calls |-> IdleCall]
          /\ socket = [s \in Sockets |-> NewSocket]
       \/ /\ call = [c \in Calls |->
                       IF c = 1
                       THEN [IdleCall EXCEPT
                               !.op = "startGame", !.pc = "set",
                               !.joinCode = JoinCode,
                               !.state = started(store[JoinCode], InitialNow),
                               !.before = Snapshot(JoinCode, store, ledger)]
                       ELSE IdleCall]
          /\ socket = [s \in Sockets |->
                         IF s = "s1" THEN [NewSocket EXCEPT !.slot = 1] ELSE NewSocket]

\* from then on the connections send next_question only, while the handlers
\* of the commands received run on
EndNext ==
    \/ \E s \in Sockets, c \in Calls : receive(s, c)
    \/ \E s \in Sockets, c \in Calls : next_question(s, c, JoinCode)
    \/ \E c \in Calls : nextQuestion_ledger(c)
    \/ \E c \in Calls : nextQuestion_set(c)
    \/ \E s \in Sockets, keys \in Orders : next_question_reply(s, keys)
    \/ \E c \in Calls : startGame_set(c)
    \/ \E c \in Calls : startGame_ledger(c)
    \/ \E s \in Sockets : start_game_reply(s)

\* the host keeps sending next_question and the event loop runs every handler
\* that can take a step
EndSpec == EndInit /\ [][EndNext]_vars /\ WF_vars(EndNext)

\* the commands of the connections to a server that holds one session, one
\* command after the other; a create_game draws the greatest join code
GatewayNext ==
    \/ \E s \in Sockets, c \in Calls : receive(s, c)
    \/ HandlerStep

GatewaySpec == SeqInit /\ [][GatewayNext]_vars

\* the event loop runs every handler that can take a step
GatewayLiveSpec == GatewaySpec /\ WF_vars(HandlerStep)

\* no handler awaits a call in slot c
Unbound(c) == \A s \in Sockets : socket[s].slot # c

\* the commands of the connections, and between them getSession calls of
\* other callers of the Engine (the pages of the application)
ReadNext ==
    \/ GatewayNext
    \/ \E c \in Calls, jc \in GatewayCodes : Unbound(c) /\ getSession_get(c, jc)
    \/ \E c \in Calls : Unbound(c) /\ Return(c)

ReadSpec == SeqInit /\ [][ReadNext]_vars

\* who joins a room: p1, p2 and a player whose client generated the empty id
\* (Math.random().toString(36).substring(7) of a short fraction)
RoomEntrants == {<<"p1", "Alice">>, <<"p2", "Bob">>, <<"", "Carol">>}

\* connections create sessions, join them and close, on a server that starts
\* without sessions
RoomNext ==
    \/ \E s \in Sockets, c \in Calls : receive(s, c)
    \/ \E s \in Hosts, c \in Calls, h \in HostIds, r \in Randoms :
          create_game(s, c, "quiz-1", h, r)
    \/ \E c \in Calls : createSession_set(c)
    \/ \E s \in Sockets : create_game_reply(s)
    \/ \E s \in Guests, c \in Calls, jc \in JoinCodes, e \in RoomEntrants :
          join_game(s, c, jc, e[2], e[1])
    \/ \E c \in Calls : joinSession_set(c)
    \/ \E s \in Sockets : join_game_reply(s)
    \/ \E s \in Sockets : disconnect(s)

RoomSpec == LobbyInit /\ [][RoomNext]_vars

\* the replies a submit_answer can get
Replies ==
    {[success |-> TRUE, correct |-> TRUE, score |-> 1500],
     [success |-> TRUE, correct |-> FALSE, score |-> 0],
     [success |-> FALSE, correct |-> FALSE, score |-> 0]}

\* the player page: clicks of its user, and replies and events of the server
\* in any order
ClientNext ==
    \/ joinGame
    \/ \E success \in BOOLEAN : joinGame_callback(success)
    \/ \E i \in 0..NumQuestions : on_question_start(i)
    \/ on_question_results
    \/ on_leaderboard_update
    \/ on_game_ended
    \/ \E o \in OptionIndexes : submitAnswer(o)
    \/ \E res \in Replies : submitAnswer_callback(res)

ClientSpec == SeqInit /\ [][ClientNext]_vars

\* sessions are created, read, joined, started and ended, one call after the other
LobbyNext ==
    \/ \E c \in Calls, q \in QuizIds, h \in HostIds, r \in Randoms :
          createSession_ledger(c, q, h, r)
    \/ \E c \in Calls : createSession_set(c)
    \/ \E c \in Calls, jc \in JoinCodes : getSession_get(c, jc)
    \/ \E c \in Calls, jc \in JoinCodes, e \in Entrants :
          joinSession_get(c, jc, e[2], e[1])
    \/ \E c \in Calls : joinSession_set(c)
    \/ \E c \in Calls, jc \in JoinCodes : startGame_get(c, jc)
    \/ \E c \in Calls : startGame_set(c)
    \/ \E c \in Calls : startGame_ledger(c)
    \/ \E c \in Calls, jc \in JoinCodes : endGame_get(c, jc)
    \/ \E c \in Calls : endGame_set(c)
    \/ \E c \in Calls : endGame_ledger(c)
    \/ \E c \in Calls : Return(c)

LobbySpec == LobbyInit /\ [][LobbyNext]_vars

\* the optionIndex values a submit_answer message can carry: those of the four
\* buckets, one below and one above
AnyOptionIndexes == -1..4

\* the GameState while the first question of quiz-1 is shown to the roster
\* p1 (Alice), p2 (Bob), after the players of DOMAIN options answered at once
\* with these options
Answered(options) ==
    LET question == QuestionAt(getQuizQuestions("quiz-1"), 0)
        points(p) == IF p \in DOMAIN options
                     THEN Points(options[p] = question.correctOptionIndex, 0,
                                 question.timeLimit)
                     ELSE 0
    IN [initialState EXCEPT
          !.status = "SHOWING_QUESTION",
          !.currentQuestionIndex = 0,
          !.startTime = <<InitialNow>>,
          !.questionStartTime = <<InitialNow>>,
          !.players = [p \in PlayerIds |->
                         [id |-> p, nickname |-> IF p = "p1" THEN "Alice" ELSE "Bob",
                          score |-> points(p)]],
          !.answers = [p \in DOMAIN options |->
                         [playerId |-> p, optionIndex |-> options[p], responseTimeMs |-> 0]]]

\* states in which some of the players have answered the first question, each
\* with any of AnyOptionIndexes
ResultsInit ==
    \E answering \in SUBSET PlayerIds :
      \E options \in [answering -> AnyOptionIndexes] :
        /\ store = (JoinCode :> Answered(options))
        /\ ledger = (JoinCode :> [id |-> 1, status |-> "ACTIVE"])
        /\ now = InitialNow
        /\ call = [c \in Calls |-> IdleCall]
        /\ phase = [roster |-> PlayerIds, answered |-> answering,
                    credited |-> [p \in PlayerIds |-> Answered(options).players[p].score]]
        /\ Connected
        /\ overlaps = 0

\* showResults on the answers of one question, one call after the other
ResultsNext ==
    \/ \E c \in Calls, jc \in JoinCodes : showResults_get(c, jc)
    \/ \E c \in Calls : showResults_set(c)
    \/ \E c \in Calls : Return(c)

ResultsSpec == ResultsInit /\ [][ResultsNext]_vars

\* the i-th player to join a large session, and the first n of them in the
\* order in which they joined
Contestant(i) == "p" \o toString(i)
Contestants(n) == [i \in 1..n |-> Contestant(i)]

\* the GameState while the results of the first question of quiz-1 are shown,
\* after the first Len(options) contestants joined in their order and
\* contestant i answered at once with options[i]
Ranked(options) ==
    LET question == QuestionAt(getQuizQuestions("quiz-1"), 0)
        number(p) == CHOOSE i \in DOMAIN options : Contestant(i) = p
        ids == {Contestant(i) : i \in DOMAIN options}
    IN [initialState EXCEPT
          !.status = "SHOWING_RESULTS",
          !.currentQuestionIndex = 0,
          !.startTime = <<InitialNow>>,
          !.questionStartTime = <<InitialNow>>,
          !.players = [p \in ids |->
                         [id |-> p, nickname |-> p,
                          score |-> Points(options[number(p)] = question.correctOptionIndex,
                                           0, question.timeLimit)]],
          !.answers = [p \in ids |->
                         [playerId |-> p, optionIndex |-> options[number(p)],
                          responseTimeMs |-> 0]]]

\* states in which up to MaxPlayers contestants have answered the first question
LeaderInit ==
    \E n \in 0..MaxPlayers :
      \E options \in [1..n -> OptionIndexes] :
        /\ store = (JoinCode :> Ranked(options))
        /\ ledger = (JoinCode :> [id |-> 1, status |-> "ACTIVE"])
        /\ now = InitialNow
        /\ call = [c \in Calls |-> IdleCall]
        /\ phase = NoHistory
        /\ Connected
        /\ overlaps = 0

\* getLeaderboard on a large roster whose keys are in the order of the joins,
\* one call after the other
LeaderNext ==
    \/ \E c \in Calls, jc \in JoinCodes, n \in 0..MaxPlayers :
          getLeaderboard_get(c, jc, Contestants(n))
    \/ \E c \in Calls : Return(c)

LeaderSpec == LeaderInit /\ [][LeaderNext]_vars

(* ============================== properties ============================= *)
\* the call in slot c was op and returned a value
Succeeded(c, op) ==
    call[c].op = op /\ call[c].pc = "done" /\ call[c].result.kind = "ok"

\* the call in slot c was op and threw msg
Failed(c, op, msg) ==
    call[c].op = op /\ call[c].pc = "done" /\ call[c].result = Err(msg)

\* the calls now in slots c and d ran on the same join code at overlapping times
Concurrent(c, d) ==
    c # d /\ d \in call[c].peers /\ call[c].joinCode = call[d].joinCode

\* slot c takes a call of op in this step
Starts(c, op) == call[c].pc = "idle" /\ call'[c].op = op

\* the currentQuestionIndex of the session
Index == store[JoinCode].currentQuestionIndex
Status == store[JoinCode].status

\* C1: when two overlapping submitAnswer calls of two distinct players have both
\* returned success, the stored answers hold an entry for both players and
\* each player's stored score is at least the points that player's call returned.
C1_BothAnswersKept ==
    \A c, d \in Calls :
        ( /\ Concurrent(c, d)
          /\ Succeeded(c, "submitAnswer") /\ Succeeded(d, "submitAnswer")
          /\ call[c].playerId # call[d].playerId )
        => LET state == store[call[c].joinCode] IN
           /\ {call[c].playerId, call[d].playerId} \subseteq DOMAIN state.answers
           /\ \A x \in {c, d} :
                call[x].playerId \in DOMAIN state.players
                  => state.players[call[x].playerId].score >= call[x].result.value.score

\* C2: when two overlapping joinSession calls with distinct playerIds have both
\* returned success, the stored players map contains both players.
C2_BothPlayersKept ==
    \A c, d \in Calls :
        ( /\ Concurrent(c, d)
          /\ Succeeded(c, "joinSession") /\ Succeeded(d, "joinSession")
          /\ call[c].playerId # call[d].playerId )
        => {call[c].playerId, call[d].playerId}
              \subseteq DOMAIN store[call[c].joinCode].players

\* C3: of two overlapping submitAnswer calls of the same player for the same
\* question at most one returns success (so that the player is scored once).
C3_AtMostOneSuccess ==
    \A c, d \in Calls :
        ( /\ Concurrent(c, d)
          /\ call[c].op = "submitAnswer" /\ call[d].op = "submitAnswer"
          /\ call[c].playerId = call[d].playerId )
        => ~(Succeeded(c, "submitAnswer") /\ Succeeded(d, "submitAnswer"))

\* C4: under sequential calls, a submitAnswer started in SHOWING_QUESTION for a
\* player whose submitAnswer already succeeded in this question phase fails
\* with 'Already answered' at once and the store is as the first call left it;
\* for a player without such a call it goes on to its write, and that write
\* returns success and stores the entry with the submitted option.
C4_SecondSubmitRejected ==
    [][\A c \in Calls :
         /\ ( /\ Starts(c, "submitAnswer") /\ call'[c].joinCode = JoinCode
              /\ Status = "SHOWING_QUESTION" )
              => IF call'[c].playerId \in phase.answered
                 THEN /\ call'[c].pc = "done"
                      /\ call'[c].result = Err("Already answered")
                      /\ store' = store
                 ELSE call'[c].pc = "set"
         /\ (call[c].op = "submitAnswer" /\ call[c].pc = "set" /\ call'[c].pc # "set")
              => /\ call'[c].pc = "done" /\ call'[c].result.kind = "ok"
                 /\ call[c].playerId \in DOMAIN store'[JoinCode].answers
                 /\ store'[JoinCode].answers[call[c].playerId].optionIndex
                       = call[c].optionIndex
      ]_vars

\* C4 witness: a roster player with points from the first call was rejected on
\* the second call of the same question phase
C4_Witness ==
    \E c \in Calls :
        /\ Failed(c, "submitAnswer", "Already answered")
        /\ call[c].playerId \in phase.answered
        /\ Status = "SHOWING_QUESTION"
        /\ call[c].playerId \in DOMAIN store[JoinCode].players
        /\ store[JoinCode].players[call[c].playerId].score > 0

\* the status transitions of the state machine, with the operation that makes them
LegalTransition(from, to, op) ==
    \/ from = "WAITING" /\ to = "ACTIVE" /\ op = "startGame"
    \/ from = "ACTIVE" /\ to = "SHOWING_QUESTION" /\ op = "nextQuestion"
    \/ from = "ACTIVE" /\ to = "ENDED" /\ op = "nextQuestion"
          /\ Len(getQuizQuestions(store[JoinCode].quizId)) = 0
    \/ from = "SHOWING_QUESTION" /\ to = "SHOWING_RESULTS" /\ op = "showResults"
    \/ from = "SHOWING_RESULTS" /\ to \in {"SHOWING_QUESTION", "ENDED"} /\ op = "nextQuestion"
    \/ to = "ENDED" /\ op = "endGame"

\* slot c persists its local state in this step
Writes(c) == call[c].pc = "set" /\ call'[c].pc # "set"

\* C5: every change of the stored status is a legal transition made by the
\* operation that owns it.
C5_OnlyLegalTransitions ==
    [][store'[JoinCode].status # store[JoinCode].status
         => \E c \in Calls :
               Writes(c) /\ LegalTransition(store[JoinCode].status,
                                            store'[JoinCode].status, call[c].op)
      ]_vars

MutatingOps == {"joinSession", "startGame", "nextQuestion", "submitAnswer", "showResults"}

\* C6: once the stored status is ENDED it stays ENDED, and every mutating
\* operation started then fails.
C6_EndedIsTerminal ==
    [][store[JoinCode].status = "ENDED"
         => /\ store'[JoinCode].status = "ENDED"
            /\ \A c \in Calls, op \in MutatingOps :
                  Starts(c, op) => call'[c].pc = "done" /\ call'[c].result.kind = "error"
      ]_vars

\* C7: no step lowers the stored score of a player that stays in the roster.
C7_ScoreNeverDecreases ==
    [][\A p \in DOMAIN store[JoinCode].players \cap DOMAIN store'[JoinCode].players :
          store'[JoinCode].players[p].score >= store[JoinCode].players[p].score
      ]_vars

\* C8: currentQuestionIndex is in [-1, questionCount], and at questionCount or
\* beyond the status is ENDED.
C8_IndexInRange ==
    LET questionCount == Len(getQuizQuestions(store[JoinCode].quizId)) IN
    /\ Index >= -1 /\ Index <= questionCount
    /\ Index >= questionCount => Status = "ENDED"

\* C9: no step lowers the stored currentQuestionIndex.
C9_IndexNeverDecreases ==
    [][store'[JoinCode].currentQuestionIndex >= store[JoinCode].currentQuestionIndex]_vars

\* C10: every key of the stored answers is a player of the roster with which
\* the current question started.
C10_AnswersFromRoster ==
    DOMAIN store[JoinCode].answers \subseteq phase.roster

\* C11: the stored score of every player of the roster is the sum of the
\* scores that submitAnswer returned to the player since the player joined.
C11_ScoreIsSumOfReturned ==
    \A p \in DOMAIN store[JoinCode].players :
        store[JoinCode].players[p].score = phase.credited[p]

\* C11 witness: a player whose score is the sum of the points of two answers
C11_Witness ==
    \E p \in DOMAIN store[JoinCode].players :
        /\ store[JoinCode].players[p].score > Points(TRUE, 0, 10)
        /\ store[JoinCode].players[p].score = phase.credited[p]
        /\ p \in phase.answered

\* C12: a submitAnswer started while the stored status is not SHOWING_QUESTION
\* fails at once with 'Not accepting answers' and the store stays as it is.
C12_RejectedOutsideQuestion ==
    [][\A c \in Calls :
         ( /\ Starts(c, "submitAnswer")
           /\ Stored(call'[c].joinCode)
           /\ store[call'[c].joinCode].status # "SHOWING_QUESTION" )
         => /\ call'[c].pc = "done"
            /\ call'[c].result = Err("Not accepting answers")
            /\ store' = store
      ]_vars

\* C12 witness: a player without an answer was rejected while the results of
\* the question are shown
C12_Witness ==
    \E c \in Calls :
        /\ Failed(c, "submitAnswer", "Not accepting answers")
        /\ Status = "SHOWING_RESULTS"
        /\ call[c].playerId \in DOMAIN store[JoinCode].players
        /\ call[c].playerId \notin DOMAIN store[JoinCode].answers

\* C13: while the stored status is SHOWING_RESULTS, a step other than the write
\* of a nextQuestion, endGame or startGame call keeps the stored status, the
\* answers and the players with their scores.
C13_NoLateAnswer ==
    [][( /\ Status = "SHOWING_RESULTS"
         /\ ~ \E c \in Calls :
                Writes(c) /\ call[c].op \in {"nextQuestion", "endGame", "startGame"} )
         => /\ store'[JoinCode].status = "SHOWING_RESULTS"
            /\ store'[JoinCode].answers = store[JoinCode].answers
            /\ store'[JoinCode].players = store[JoinCode].players
      ]_vars

\* C14: a joinSession started for a join code without stored state fails at
\* once with 'Session not found', one started for a stored state that is not
\* WAITING fails at once with 'Game already started'; the store stays as it is.
C14_JoinRejected ==
    [][\A c \in Calls :
         Starts(c, "joinSession")
         => LET jc == call'[c].joinCode IN
            /\ ~Stored(jc)
                 => /\ call'[c].pc = "done"
                    /\ call'[c].result = Err("Session not found")
                    /\ store' = store
            /\ (Stored(jc) /\ store[jc].status # "WAITING")
                 => /\ call'[c].pc = "done"
                    /\ call'[c].result = Err("Game already started")
                    /\ store' = store
      ]_vars

\* C14 witness: a player that is not in the roster was rejected after the game started
C14_Witness ==
    \E c \in Calls :
        /\ Failed(c, "joinSession", "Game already started")
        /\ Stored(call[c].joinCode)
        /\ store[call[c].joinCode].status = "SHOWING_QUESTION"
        /\ call[c].playerId \notin DOMAIN store[call[c].joinCode].players

\* C15: under sequential calls the write of a joinSession call succeeds and
\* leaves the roster as it was, except that the call's playerId is mapped to
\* {id, nickname, score 0}: one more entry for a new playerId, the same number
\* of entries for a playerId already present, and every entry with score 0.
C15_JoinUpserts ==
    [][\A c \in Calls :
         (call[c].op = "joinSession" /\ Writes(c))
         => LET jc == call[c].joinCode
                p == call[c].playerId
                old == store[jc].players
                new == store'[jc].players
            IN /\ call'[c].pc = "done" /\ call'[c].result.kind = "ok"
               /\ DOMAIN new = DOMAIN old \cup {p}
               /\ new[p] = [id |-> p, nickname |-> call[c].nickname, score |-> 0]
               /\ \A q \in DOMAIN old \ {p} : new[q] = old[q]
               /\ Cardinality(DOMAIN new)
                     = Cardinality(DOMAIN old) + (IF p \in DOMAIN old THEN 0 ELSE 1)
               /\ \A q \in DOMAIN new : new[q].score = 0
      ]_vars

\* C15 witness: a player of a roster of two joined again under another nickname
C15_Witness ==
    \E c \in Calls :
        /\ Succeeded(c, "joinSession")
        /\ call[c].found # Null
        /\ call[c].found # <<call[c].nickname>>
        /\ store[call[c].joinCode].players[call[c].playerId].nickname = call[c].nickname
        /\ Cardinality(DOMAIN store[call[c].joinCode].players) = 2

\* the characters of a decimal string, and the number it denotes
Digits == {"0", "1", "2", "3", "4", "5", "6", "7", "8", "9"}
IsDecimal(str) == \A i \in 1..Len(str) : SubSeq(str, i, i) \in Digits
DigitValue(ch) == CHOOSE d \in 0..9 : Digit(d) = ch
RECURSIVE parseInt(_)
parseInt(str) ==
    IF Len(str) = 0 THEN 0
    ELSE 10 * parseInt(SubSeq(str, 1, Len(str) - 1)) + DigitValue(SubSeq(str, Len(str), Len(str)))

\* C16: the write of a createSession call returns a join code of 6 decimal
\* characters that denotes a number in [100000, 999999]; the Ledger entry of
\* the code is WAITING, and the state stored for the code is WAITING with index
\* -1, no players, no answers, no timestamps and the quizId and hostId of the
\* call; getSession returns the state stored for its code as it is.
C16_CreateThenGet ==
    [][\A c \in Calls :
         /\ (call[c].op = "createSession" /\ Writes(c))
              => LET jc == call'[c].result.value IN
                 /\ call'[c].pc = "done" /\ call'[c].result.kind = "ok"
                 /\ Len(jc) = 6 /\ IsDecimal(jc)
                 /\ parseInt(jc) >= 100000 /\ parseInt(jc) <= 999999
                 /\ jc \in DOMAIN ledger' /\ ledger'[jc].status = "WAITING"
                 /\ jc \in DOMAIN store'
                 /\ store'[jc].status = "WAITING"
                 /\ store'[jc].currentQuestionIndex = -1
                 /\ store'[jc].players = <<>> /\ store'[jc].answers = <<>>
                 /\ store'[jc].questionStartTime = Null /\ store'[jc].startTime = Null
                 /\ store'[jc].quizId = call[c].quizId /\ store'[jc].hostId = call[c].hostId
         /\ (Starts(c, "getSession") /\ Stored(call'[c].joinCode))
              => /\ call'[c].pc = "done"
                 /\ call'[c].result = Ok(store[call'[c].joinCode])
                 /\ store' = store
      ]_vars

\* C16 witness: getSession returned the state of a session just created with
\* the greatest join code for the quiz without questions
C16_Witness ==
    \E c \in Calls :
        /\ Succeeded(c, "getSession")
        /\ call[c].joinCode = "999999"
        /\ call[c].result.value # Null
        /\ call[c].result.value = newState(call[c].result.value.sessionId, "quiz-0", "host-1")
        /\ ledger[call[c].joinCode].status = "WAITING"

Started == {"ACTIVE", "SHOWING_QUESTION", "SHOWING_RESULTS"}

C19_AnswersOfCurrentQuestion ==
    DOMAIN store[JoinCode].answers # {}
       => HasQuestion(getQuizQuestions(store[JoinCode].quizId), Index)

\* the sum of the elements of a sequence of numbers
RECURSIVE Sum(_)
Sum(seq) == IF seq = <<>> THEN 0 ELSE Head(seq) + Sum(Tail(seq))

\* what a showResults call that returned says about the stored answers:
\* the correct option of the current question, per bucket the number of
\* answers with the bucket's option, the number of correct answers
ResultsCount(c) ==
    LET state == store[call[c].joinCode]
        question == QuestionAt(getQuizQuestions(state.quizId), state.currentQuestionIndex)
        value == call[c].result.value
        with(option) == {p \in DOMAIN state.answers : state.answers[p].optionIndex = option}
    IN /\ value.correctOptionIndex = question.correctOptionIndex
       /\ Len(value.answerDistribution) = 4
       /\ \A i \in 0..3 : value.answerDistribution[i + 1] = Cardinality(with(i))
       /\ value.correctCount = Cardinality(with(question.correctOptionIndex))
       /\ state.answers = <<>>
            => value.answerDistribution = <<0, 0, 0, 0>> /\ value.correctCount = 0

\* C20 as stated: ResultsCount, and the distribution sums to the number of
\* stored answers.
C20_DistributionSumsToAnswers ==
    \A c \in Calls :
        Succeeded(c, "showResults")
        => /\ ResultsCount(c)
           /\ Sum(call[c].result.value.answerDistribution)
                 = Cardinality(DOMAIN store[call[c].joinCode].answers)

\* C20 amended: ResultsCount, and the distribution sums to the number of
\* stored answers whose optionIndex is one of 0..3.
C20_DistributionSumsToBuckets ==
    \A c \in Calls :
        Succeeded(c, "showResults")
        => LET answers == store[call[c].joinCode].answers IN
           /\ ResultsCount(c)
           /\ Sum(call[c].result.value.answerDistribution)
                 = Cardinality({p \in DOMAIN answers : answers[p].optionIndex \in 0..3})

\* C20 witness: showResults returned for two answers, one of them with an
\* optionIndex beyond the buckets, and the distribution sums to one
C20_Witness ==
    \E c \in Calls :
        /\ Succeeded(c, "showResults")
        /\ Cardinality(DOMAIN store[call[c].joinCode].answers) = 2
        /\ \E p \in DOMAIN store[call[c].joinCode].answers :
              store[call[c].joinCode].answers[p].optionIndex > 3
        /\ Sum(call[c].result.value.answerDistribution) = 1
        /\ call[c].result.value.correctCount = 1

\* C21: a showResults started for a stored state with a current question goes
\* on to its write, whatever the status; its write changes nothing of the
\* stored state but the status, which becomes SHOWING_RESULTS, and returns the
\* distribution and the correct count of the stored answers; when the status
\* already was SHOWING_RESULTS the stored state stays as the call before left
\* it, so that the call returns what the call before returned.
C21_ShowResultsIdempotent ==
    [][\A c \in Calls :
         /\ ( /\ Starts(c, "showResults") /\ Stored(call'[c].joinCode)
              /\ HasQuestion(getQuizQuestions(store[call'[c].joinCode].quizId),
                             store[call'[c].joinCode].currentQuestionIndex) )
              => call'[c].pc = "set" /\ store' = store
         /\ (call[c].op = "showResults" /\ Writes(c))
              => LET jc == call[c].joinCode
                     old == store[jc]
                     value == call'[c].result.value
                     with(option) == {p \in DOMAIN old.answers :
                                         old.answers[p].optionIndex = option}
                 IN /\ call'[c].pc = "done" /\ call'[c].result.kind = "ok"
                    /\ store' = [store EXCEPT ![jc].status = "SHOWING_RESULTS"]
                    /\ old.status = "SHOWING_RESULTS" => store' = store
                    /\ \A i \in 0..3 : value.answerDistribution[i + 1] = Cardinality(with(i))
                    /\ value.correctCount = Cardinality(with(value.correctOptionIndex))
      ]_vars

\* C21 witness: showResults returned for a state with an answer whose status
\* it read as SHOWING_RESULTS, the second call for the question
C21_Witness ==
    \E c \in Calls :
        /\ Succeeded(c, "showResults")
        /\ call[c].found = <<"SHOWING_RESULTS">>
        /\ store[call[c].joinCode].answers # <<>>
        /\ call[c].result.value.correctCount = 1

\* C22: a showResults started for a join code without stored state fails at
\* once with 'Session not found', one started for a stored state without a
\* question at currentQuestionIndex fails at once with 'No current question';
\* the store stays as it is.
C22_ShowResultsRejected ==
    [][\A c \in Calls :
         Starts(c, "showResults")
         => LET jc == call'[c].joinCode IN
            /\ ~Stored(jc)
                 => /\ call'[c].pc = "done"
                    /\ call'[c].result = Err("Session not found")
                    /\ store' = store
            /\ ( /\ Stored(jc)
                 /\ \/ store[jc].currentQuestionIndex < 0
                    \/ store[jc].currentQuestionIndex
                          >= Len(getQuizQuestions(store[jc].quizId)) )
                 => /\ call'[c].pc = "done"
                    /\ call'[c].result = Err("No current question")
                    /\ store' = store
      ]_vars

\* C22 witness: showResults failed after the last question, the status is ENDED
\* and the index is the number of questions of quiz-1
C22_Witness ==
    \E c \in Calls :
        /\ Failed(c, "showResults", "No current question")
        /\ call[c].joinCode = JoinCode
        /\ Status = "ENDED"
        /\ Index = Len(getQuizQuestions("quiz-1")) /\ Index > 0

\* C24: a joinSession, startGame, nextQuestion, submitAnswer, showResults or
\* endGame started for a join code without stored state fails at once with an
\* error, and the Store and the Ledger stay as they are.
C24_AbsentIsHardFailure ==
    [][\A c \in Calls :
         ( /\ \E op \in MutatingOps \cup {"endGame"} : Starts(c, op)
           /\ ~Stored(call'[c].joinCode) )
         => /\ call'[c].pc = "done"
            /\ call'[c].result.kind = "error"
            /\ store' = store /\ ledger' = ledger
      ]_vars

\* C25: a step that ends a call with an error leaves the Store and the Ledger
\* holding for the call's join code what they held when the call was made.
C25_AppliesOrRejects ==
    [][\A c \in Calls :
         ( /\ call[c].pc \notin {"idle", "done"}
           /\ call'[c].pc = "done" /\ call'[c].result.kind = "error" )
         => Snapshot(call[c].joinCode, store', ledger') = call[c].before
      ]_vars

\* C23: getLeaderboard returns the empty list for a join code without stored
\* state; for a stored state it returns min(10, number of players) entries,
\* each the entry of another player of the session, with scores that do not
\* increase along the list, and no player left out has a greater score than
\* a player in the list.
C23_LeaderboardTopTen ==
    \A c \in Calls :
        Succeeded(c, "getLeaderboard")
        => LET board == call[c].result.value
               jc == call[c].joinCode
           IN IF ~Stored(jc) THEN board = <<>>
              ELSE LET players == store[jc].players
                       count == Cardinality(DOMAIN players)
                       listed == {board[i].id : i \in DOMAIN board}
                   IN /\ Len(board) = IF count < 10 THEN count ELSE 10
                      /\ \A i \in DOMAIN board :
                            board[i].id \in DOMAIN players /\ board[i] = players[board[i].id]
                      /\ Cardinality(listed) = Len(board)
                      /\ \A i, j \in DOMAIN board : i < j => board[i].score >= board[j].score
                      /\ \A p \in DOMAIN players \ listed :
                            \A i \in DOMAIN board : players[p].score <= board[i].score

\* C23 witness: the leaderboard of eleven players has ten entries, from the
\* greatest score down to a score of 0, and leaves out a player without points
C23_Witness ==
    \E c \in Calls :
        /\ Succeeded(c, "getLeaderboard")
        /\ Stored(call[c].joinCode)
        /\ Cardinality(DOMAIN store[call[c].joinCode].players) > 10
        /\ Len(call[c].result.value) = 10
        /\ call[c].result.value[1].score = Points(TRUE, 0, 10)
        /\ call[c].result.value[10].score = 0

\* the handler of connection s for command op ends in this step
Ends(s, op) == Resumes(s, op) /\ socket'[s].slot = 0

\* the outcome of the Engine call the handler of connection s awaited
Outcome(s) == call[socket[s].slot].result

\* the events of emitted with this name
Named(events, name) == SelectSeq(events, LAMBDA e : e.event = name)

\* C26: when a next_question handler ends after nextQuestion returned a
\* question, it has broadcast to the room of the join code one question_start
\* whose fields are exactly questionIndex, totalQuestions, text, options and
\* timeLimit, with the values of the question at the stored index, and no
\* event carries correctOptionIndex to the room; when nextQuestion returned no
\* question it has broadcast no question_start but game_ended with the
\* leaderboard of getLeaderboard, and acknowledged with ended: true and the
\* same leaderboard.
C26_QuestionStartHidesAnswer ==
    [][\A s \in Sockets :
         (Ends(s, "nextQuestion") /\ Outcome(s).kind = "ok") =>
            LET jc == call[socket[s].slot].joinCode
                state == store[jc]
                questions == getQuizQuestions(state.quizId)
                starts == Named(emitted', "question_start")
                ends == Named(emitted', "game_ended")
                acks == Named(emitted', "ack")
            IN IF Outcome(s).value.question # Null
               THEN /\ Len(starts) = 1 /\ Len(ends) = 0
                    /\ starts[1].via = "room" /\ starts[1].to = jc
                    /\ starts[1].payload =
                          [questionIndex |-> state.currentQuestionIndex,
                           totalQuestions |-> Len(questions),
                           text |-> QuestionAt(questions, state.currentQuestionIndex).text,
                           options |-> QuestionAt(questions, state.currentQuestionIndex).options,
                           timeLimit |-> QuestionAt(questions, state.currentQuestionIndex).timeLimit]
                    /\ \A i \in DOMAIN emitted' :
                          emitted'[i].via = "room" =>
                             "correctOptionIndex" \notin DOMAIN emitted'[i].payload
               ELSE /\ Len(starts) = 0 /\ Len(ends) = 1 /\ Len(acks) = 1
                    /\ ends[1].via = "room" /\ ends[1].to = jc
                    /\ DOMAIN ends[1].payload = {"leaderboard"}
                    /\ \E keys \in Enumerations(DOMAIN state.players) :
                          ends[1].payload.leaderboard = getLeaderboard(state, keys)
                    /\ acks[1].payload.success /\ acks[1].payload.ended
                    /\ acks[1].payload.leaderboard = ends[1].payload.leaderboard
      ]_vars

\* a question_start has been broadcast to a room with a player in it
C26_Witness ==
    /\ Len(Named(emitted, "question_start")) = 1
    /\ store[JoinCode].status = "SHOWING_QUESTION"
    /\ DOMAIN store[JoinCode].players # {}

\* a game_ended with two ranked players has been broadcast
C26_GameEnded ==
    /\ Len(Named(emitted, "game_ended")) = 1
    /\ Len(Named(emitted, "game_ended")[1].payload.leaderboard) = 2

\* C28: when a submit_answer handler ends after submitAnswer succeeded, it has
\* emitted exactly, in this order, answer_count_update to the room with the
\* sizes of the stored answers and players maps, the acknowledgment {success:
\* true, correct, score} and answer_result {correct, score} to the submitting
\* connection, both with the values submitAnswer returned; when submitAnswer
\* failed it has emitted no answer_count_update and no answer_result.
C28_SubmitAnswerEvents ==
    [][\A s \in Sockets :
         Ends(s, "submitAnswer") =>
            LET jc == call[socket[s].slot].joinCode
                result == Outcome(s).value
            IN IF Outcome(s).kind = "ok"
               THEN /\ Len(emitted') = 3
                    /\ emitted'[1].event = "answer_count_update"
                    /\ emitted'[1].via = "room" /\ emitted'[1].to = jc
                    /\ emitted'[1].payload =
                          [answerCount |-> Cardinality(DOMAIN store'[jc].answers),
                           totalPlayers |-> Cardinality(DOMAIN store'[jc].players)]
                    /\ emitted'[2].event = "ack" /\ emitted'[2].to = s
                    /\ emitted'[2].payload =
                          [success |-> TRUE, correct |-> result.correct, score |-> result.score]
                    /\ emitted'[3].event = "answer_result"
                    /\ emitted'[3].via = "socket" /\ emitted'[3].to = s
                    /\ emitted'[3].payload = [correct |-> result.correct, score |-> result.score]
               ELSE /\ Len(Named(emitted', "answer_count_update")) = 0
                    /\ Len(Named(emitted', "answer_result")) = 0
      ]_vars

\* the second of two players has answered right and has been told so
C28_Witness ==
    /\ Len(Named(emitted, "answer_result")) = 1
    /\ Named(emitted, "answer_result")[1].payload.correct
    /\ Named(emitted, "answer_count_update")[1].payload =
          [answerCount |-> 2, totalPlayers |-> 2]

\* a submit_answer has failed and has been acknowledged as failed
C28_Rejected ==
    /\ Len(emitted) = 1 /\ emitted[1].event = "ack"
    /\ ~emitted[1].payload.success
    /\ emitted[1].payload.error = "Already answered"

\* the acknowledgments to connection s among the events
Acks(events, s) == SelectSeq(events, LAMBDA e : e.event = "ack" /\ e.to = s)

\* C27: the step in which the handler of a command ends invokes the callback
\* of that command once, with success: true when the Engine call returned and
\* with {success: false, error: the message thrown} when it threw, and leaves
\* the connection open and ready for its next command; no other step invokes
\* a callback of the connection; and again and again no handler is pending:
\* the handler of every command received ends.
C27_AcknowledgedOnce ==
    /\ [][\A s \in Sockets :
            IF socket[s].slot # 0 /\ socket'[s].slot = 0
            THEN /\ Len(Acks(emitted', s)) = 1
                 /\ IF Outcome(s).kind = "ok"
                    THEN Acks(emitted', s)[1].payload.success
                    ELSE Acks(emitted', s)[1].payload =
                            [success |-> FALSE, error |-> Outcome(s).error]
                 /\ socket'[s].connected
                 /\ call'[socket[s].slot] = IdleCall
            ELSE emitted' = emitted \/ Len(Acks(emitted', s)) = 0
         ]_vars
    /\ []<>(\A s \in Sockets : socket[s].slot = 0)

\* a command on an unknown join code has been acknowledged as failed, with the
\* message of the Engine, and its connection is open for the next command
C27_Witness ==
    \E s \in Sockets :
       /\ Len(Acks(emitted, s)) = 1
       /\ Acks(emitted, s)[1].payload = [success |-> FALSE, error |-> "Session not found"]
       /\ socket[s].connected /\ socket[s].slot = 0

\* connection s closes in this step
Closes(s) == socket[s].connected /\ ~socket'[s].connected

\* C29: when a connection closes, player_disconnected {playerId} is broadcast
\* to the room of the join code recorded on it if a join_game of the
\* connection has succeeded, with the player id of the last such join_game,
\* and nothing is emitted if none has; the stored states are unchanged.
C29_DisconnectAnnounced ==
    [][\A s \in Sockets :
         Closes(s) =>
            /\ store' = store
            /\ IF socket[s].played # {}
               THEN emitted' = <<broadcast(socket[s].joinCode[1], "player_disconnected",
                                           [playerId |-> socket[s].playerId[1]])>>
               ELSE emitted' = <<>>
      ]_vars

\* C30: a connection that is open is in at most one room it entered by
\* create_game and in at most one room it entered by join_game, and the join
\* code recorded on it is that of a room it is in.
C30_OneRoomPerRole ==
    \A s \in Sockets :
       socket[s].connected =>
          /\ Cardinality(socket[s].hosted) <= 1
          /\ Cardinality(socket[s].played) <= 1
          /\ socket[s].joinCode # Null => socket[s].joinCode[1] \in socket[s].rooms

\* C31: a submitAnswer that returns has scored 0 for an option that is not the
\* correct one; for the correct option, with r = now - questionStartTime and
\* T = timeLimit * 1000, it has scored the integer nearest to
\* 1000 + max(0, 1 - r/T) * 500 (the upper one of two), which is 1500 at r = 0,
\* 1000 for r >= T, at least the score for r + 1, and within 1000..1500.
C31_ScoringRule ==
    [][\A c \in Calls :
         (call[c].op = "submitAnswer" /\ call[c].pc = "set" /\ call'[c].pc = "done") =>
            LET state == store[call[c].joinCode]
                question == QuestionAt(getQuizQuestions(state.quizId),
                                       state.currentQuestionIndex)
                r == now - state.questionStartTime[1]
                T == question.timeLimit * 1000
                res == call'[c].result.value
            IN /\ res.correct = (call[c].optionIndex = question.correctOptionIndex)
               /\ ~res.correct => res.score = 0
               /\ res.correct =>
                     /\ res.score >= 1000 /\ res.score <= 1500
                     /\ r = 0 => res.score = 1500
                     /\ r >= T => res.score = 1000
                     /\ r < T =>
                           /\ 2 * T * (res.score - 1000) - 1000 * (T - r) > 0 - T
                           /\ 2 * T * (res.score - 1000) - 1000 * (T - r) <= T
                     /\ res.score >= Points(TRUE, r + 1, question.timeLimit)
      ]_vars

\* a correct answer given after the time limit has been scored 1000
C31_Witness ==
    \E c \in Calls :
       /\ call[c].op = "submitAnswer" /\ call[c].pc = "done"
       /\ call[c].result.kind = "ok" /\ call[c].result.value.correct
       /\ call[c].result.value.score = 1000
       /\ now - store[JoinCode].questionStartTime[1] >
             1000 * QuestionAt(getQuizQuestions("quiz-1"), 0).timeLimit

\* the Ledger status that mirrors a Store status
Mirror(status) ==
    IF status \in {"ACTIVE", "SHOWING_QUESTION", "SHOWING_RESULTS"} THEN "ACTIVE" ELSE status

\* C32: whenever no call is in flight, the Ledger status of the session is the
\* mirror of its stored status (WAITING for WAITING, ACTIVE for ACTIVE,
\* SHOWING_QUESTION and SHOWING_RESULTS, ENDED for ENDED).
C32_LedgerMirrorsStore ==
    Flying = {} => ledger[JoinCode].status = Mirror(store[JoinCode].status)

\* the operations that are not meant to touch the roster
HostOps == {"startGame", "nextQuestion", "showResults", "endGame"}

\* C33: a step of joinSession, startGame, nextQuestion, submitAnswer,
\* showResults or endGame that writes the stored state of a session leaves its
\* sessionId, quizId and hostId as they were, and a step of startGame,
\* nextQuestion, showResults or endGame also leaves its players map as it was.
C33_IdentityAndRosterKept ==
    [][\A c \in Calls :
         LET jc == call[c].joinCode IN
         (call[c].pc = "set" /\ call'[c].pc # "set" /\ store' # store
            /\ call[c].op # "createSession" /\ Stored(jc)) =>
            /\ store'[jc].sessionId = store[jc].sessionId
            /\ store'[jc].quizId = store[jc].quizId
            /\ store'[jc].hostId = store[jc].hostId
            /\ call[c].op \in HostOps => store'[jc].players = store[jc].players
      ]_vars

\* C34: the step that is a getSession or a getLeaderboard call, and the step
\* in which the get_leaderboard handler ends, leave the Store and the Ledger
\* as they are; getSession returns the stored state, or null; the handler
\* emits leaderboard_update to the room and its acknowledgment, nothing else.
C34_PureReads ==
    [][/\ \A c \in Calls :
            (call[c].pc = "idle" /\ call'[c].op \in {"getSession", "getLeaderboard"}) =>
               /\ store' = store /\ ledger' = ledger
               /\ call'[c].pc = "done"
               /\ call'[c].op = "getSession" =>
                     call'[c].result.value =
                        IF Stored(call'[c].joinCode) THEN store'[call'[c].joinCode] ELSE Null
       /\ \A s \in Sockets :
            Ends(s, "getLeaderboard") =>
               /\ store' = store /\ ledger' = ledger
               /\ Len(emitted') = 2
               /\ emitted'[1].event = "leaderboard_update" /\ emitted'[1].via = "room"
               /\ emitted'[1].to = call[socket[s].slot].joinCode
               /\ emitted'[2].event = "ack" /\ emitted'[2].to = s
      ]_vars

\* the leaderboard of a session with answers stored has been broadcast
C34_Witness ==
    /\ Len(Named(emitted, "leaderboard_update")) = 1
    /\ Len(Named(emitted, "leaderboard_update")[1].payload.leaderboard) = 2
    /\ DOMAIN store[JoinCode].answers # {}

\* getSession has returned the state of a session with answers stored
C34_SessionRead ==
    \E c \in Calls :
       /\ call[c].op = "getSession" /\ call[c].pc = "done"
       /\ call[c].result.value # Null
       /\ DOMAIN call[c].result.value.answers # {}

\* C35: under sequential calls, a submitAnswer made while the session shows a
\* question, for a player id that has no entry in players and none in answers,
\* is accepted; when it has persisted it has returned correct and the score of
\* the scoring rule for the response time recorded, the stored answers hold
\* one more entry, that of the id with the option given, and the stored
\* players map, scores included, is as before.
C35_AnswerOfUnknownPlayer ==
    [][\A c \in Calls :
         LET jc == call'[c].joinCode
             pid == call'[c].playerId
         IN /\ (/\ Starts(c, "submitAnswer") /\ jc = JoinCode
                /\ Status = "SHOWING_QUESTION"
                /\ HasQuestion(getQuizQuestions(store[jc].quizId), Index)
                /\ pid \notin DOMAIN store[jc].players
                /\ pid \notin DOMAIN store[jc].answers)
               => call'[c].pc = "set"
            /\ (/\ call[c].op = "submitAnswer" /\ call[c].pc = "set"
                /\ call'[c].pc = "done"
                /\ pid \notin DOMAIN store[jc].players)
               => LET question == QuestionAt(getQuizQuestions(store[jc].quizId),
                                             store[jc].currentQuestionIndex)
                      res == call'[c].result
                  IN /\ res.kind = "ok"
                     /\ res.value.correct =
                           (call[c].optionIndex = question.correctOptionIndex)
                     /\ pid \in DOMAIN store'[jc].answers
                     /\ res.value.score =
                           Points(res.value.correct, store'[jc].answers[pid].responseTimeMs,
                                  question.timeLimit)
                     /\ store'[jc].answers[pid].optionIndex = call[c].optionIndex
                     /\ Cardinality(DOMAIN store'[jc].answers) =
                           Cardinality(DOMAIN store[jc].answers) + 1
                     /\ store'[jc].players = store[jc].players
      ]_vars

\* the right answer of a player who never joined is stored next to the roster
\* of another player, whose score is still 0
C35_Witness ==
    /\ Status = "SHOWING_QUESTION"
    /\ DOMAIN store[JoinCode].players = {"p1"}
    /\ store[JoinCode].players["p1"].score = 0
    /\ "p2" \in DOMAIN store[JoinCode].answers
    /\ \E c \in Calls :
          /\ call[c].op = "submitAnswer" /\ call[c].pc = "done"
          /\ call[c].playerId = "p2" /\ call[c].result.kind = "ok"
          /\ call[c].result.value.score > 0

\* the fields of an acknowledgment, those of the question object it carries
\* included
Disclosed(body) ==
    DOMAIN body \cup (IF "question" \in DOMAIN body THEN DOMAIN body.question ELSE {})

\* C36: when a next_question handler ends after nextQuestion returned a
\* question, its acknowledgment carries the questionIndex, totalQuestions,
\* text, options and timeLimit of the question_start it broadcast and no
\* correctOptionIndex; when nextQuestion returned no question, it carries
\* ended: true and the leaderboard of the game_ended it broadcast.
C36_ReplyMirrorsBroadcast ==
    [][\A s \in Sockets :
         (Ends(s, "nextQuestion") /\ Outcome(s).kind = "ok") =>
            LET replied == Acks(emitted', s)[1].payload IN
            IF Outcome(s).value.question # Null
            THEN LET sent == Named(emitted', "question_start")[1].payload IN
                 /\ replied.questionIndex = sent.questionIndex
                 /\ replied.totalQuestions = sent.totalQuestions
                 /\ replied.question.text = sent.text
                 /\ replied.question.options = sent.options
                 /\ replied.question.timeLimit = sent.timeLimit
                 /\ "correctOptionIndex" \notin Disclosed(replied)
            ELSE /\ replied.ended
                 /\ replied.leaderboard = Named(emitted', "game_ended")[1].payload.leaderboard
      ]_vars

\* C37: the player page has emitted at most one submit_answer since the last
\* question_start; it emits one only on a click while nothing is selected,
\* and only the next question_start makes it emit again.
C37_OneSubmitPerQuestion ==
    [][/\ client'.sent <= 1
       /\ client'.sent > client.sent =>
             client.status = "QUESTION" /\ client.selectedAnswer = Null
       /\ client'.sent < client.sent =>
             client'.status = "QUESTION" /\ client'.selectedAnswer = Null
       /\ Len(client'.submitted) > Len(client.submitted) => client'.sent = client.sent + 1
      ]_vars

\* an answer was submitted and rejected, so that the buttons are still shown
\* and can be clicked again
C37_Witness ==
    /\ client.sent = 1 /\ client.status = "QUESTION"
    /\ client.selectedAnswer # Null /\ client.submitted = <<>>

\* C38: under sequential commands, when a handler ends having broadcast
\* game_started to a room or acknowledged start_game with success: true, a
\* state is stored for the join code and its status is ACTIVE; having
\* broadcast player_joined, the player is in the stored roster; having
\* broadcast question_results, the stored status is SHOWING_RESULTS.
C38_BroadcastsAreCommitted ==
    [][\A s \in Sockets :
         (socket[s].slot # 0 /\ socket'[s].slot = 0) =>
            LET jc == call[socket[s].slot].joinCode IN
            /\ (\/ Len(Named(emitted', "game_started")) > 0
                \/ (/\ call[socket[s].slot].op = "startGame"
                    /\ Acks(emitted', s)[1].payload.success))
               => (Stored(jc) /\ store'[jc].status = "ACTIVE")
            /\ Len(Named(emitted', "player_joined")) > 0
               => (/\ Stored(jc)
                   /\ Named(emitted', "player_joined")[1].payload.playerId
                         \in DOMAIN store'[jc].players)
            /\ Len(Named(emitted', "question_results")) > 0
               => (Stored(jc) /\ store'[jc].status = "SHOWING_RESULTS")
      ]_vars

\* the leaderboard ranks exactly the players of the roster, with their scores
Ranks(leaderboard, players) ==
    /\ Len(leaderboard) = Cardinality(DOMAIN players)
    /\ \A p \in DOMAIN players :
          \E i \in DOMAIN leaderboard : leaderboard[i] = players[p]

\* a next_question handler has just ended the game: the stored status is ENDED
\* and game_ended was broadcast to the room of the session with its leaderboard
GameOver ==
    /\ Stored(JoinCode) /\ store[JoinCode].status = "ENDED"
    /\ Len(Named(emitted, "game_ended")) = 1
    /\ Named(emitted, "game_ended")[1].via = "room"
    /\ Named(emitted, "game_ended")[1].to = JoinCode
    /\ Ranks(Named(emitted, "game_ended")[1].payload.leaderboard,
             store[JoinCode].players)

\* C39: once the commands other than next_question have all been issued, in
\* whatever state they left the session and with the last of them still in
\* flight or not, a host that keeps sending next_question (overlapping or not)
\* brings the game to its end: eventually the stored status is ENDED and a
\* game_ended event with the leaderboard of the session has been broadcast to
\* its room.
C39_GameTerminates == <>GameOver

\* the game of two players was ended by a next_question that was received
\* while another call was in flight
C39_Witness ==
    /\ GameOver
    /\ store[JoinCode].startTime # Null
    /\ Cardinality(DOMAIN store[JoinCode].players) = 2
    /\ store[JoinCode].currentQuestionIndex = NumQuestions
    /\ overlaps < MaxOverlaps

====
